---- MODULE Spec2Model ----
(***************************************************************************)
(* Model of the bank-app server: the transfer controller                   *)
(* (controllers/transactionsController.ts), the transaction repository     *)
(* (repositories/transactionRepository.ts) and the account store they      *)
(* talk to through Prisma.  Every await of the controller is a suspension  *)
(* point, so a request is a small process whose steps interleave with the  *)
(* steps of the other requests.  Money is counted in whole currency units  *)
(* (decimal.js is exact, so integers lose nothing).                        *)
(***************************************************************************)
EXTENDS Integers, Sequences, FiniteSets, TLC

\* ---------------------------------------------------------------- bounds
\* total number of transfer requests accepted during one behaviour
MaxRequests == 2

\* total number of account requests (set as default, create another
\* account) accepted during one behaviour
MaxAccountRequests == 4

\* the longest ledger a listing is run against
MaxLedger == 12

\* total number of signup requests accepted during one behaviour
MaxSignups == 2

\* the request handlers that can be in flight at the same time; a handler
\* that has answered serves the next request
Handlers == {"h1", "h2"}

\* ------------------------------------------------------ program constants
DEFAULT_FIRST_ACCOUNT_BALANCE == 1000
BAD_REQUEST == 400
UNAUTHORIZED == 401
NOT_FOUND == 404
CREATED == 201
CONFLICT == 409
INTERNAL_SERVER_ERROR == 500
OK == 200
FORBIDDEN == 403
MAX_ACCOUNTS_PER_USER == 3
TRANSACTIONS_LIMIT == 10
DEFAULT_ADDITIONAL_ACCOUNT_BALANCE == 500

\* --------------------------------------------------------------- universe
Users == {"u1", "u2"}
NoUser == "none"

\* ids and numbers a request can carry: the two existing accounts, an id /
\* number that names nothing, and the empty (missing) field
Missing == ""
RequestAccountIds == {"a1", "a2", "ax"}
RequestAccountNumbers == {"n1", "n2", "nx"}

\* the JSON values a request can carry in "amount"
Undefined == [k |-> "undefined", n |-> 0, s |-> ""]
Num(n) == [k |-> "number", n |-> n, s |-> ""]
Str(s) == [k |-> "string", n |-> 0, s |-> s]
AmountInputs ==
  {Str("abc"), Str("NaN"), Num(-500), Num(0), Num(500), Str("1000")}

Request(user, accountId, recipientAccountNumber, amount) ==
  [user |-> user, accountId |-> accountId,
   recipientAccountNumber |-> recipientAccountNumber, amount |-> amount]

\* the requests the controller is called with: every combination of caller,
\* source id, recipient number and amount, plus one request without a
\* verified identity and one request for each required field left out
Requests ==
  { Request(u, a, n, m) : u \in Users, a \in RequestAccountIds,
                           n \in RequestAccountNumbers, m \in AmountInputs }
  \cup { Request(NoUser, "a1", "n2", Num(500)),
         Request("u1", Missing, "n2", Num(500)),
         Request("u1", "a1", Missing, Num(500)),
         Request("u1", "a1", "n2", Undefined) }

NullAccount == [id |-> "", userId |-> "", accountNumber |-> "",
                balance |-> 0, defaultAccount |-> FALSE]
NoResponse == [status |-> 0, message |-> ""]
NoRequest == Request(NoUser, Missing, Missing, Undefined)

\* a request to the accounts controller: PUT /accounts/:id (updateAccount)
\* or POST /accounts (createAnotherAccount, whose body must be empty)
AccountRequest(kind, user, accountId, bodyKeys) ==
  [kind |-> kind, user |-> user, accountId |-> accountId,
   bodyKeys |-> bodyKeys]
NoAccountRequest == AccountRequest("", NoUser, Missing, 0)

\* uuidv4() and a generateAccountNumber() that hits no existing number:
\* the n-th account created gets the n-th id and the n-th number
NewAccountIds == <<"a3", "a4", "a5", "a6", "a7", "a8">>
NewAccountNumbers == <<"n3", "n4", "n5", "n6", "n7", "n8">>

\* a request to getTransactions: GET /transactions?accountId=..
ListRequest(user, accountId) == [user |-> user, accountId |-> accountId]
NoListRequest == ListRequest(NoUser, Missing)

\* socket.io connections
Sockets == {"s1", "s2", "s3"}
NoSocket == ""

\* User.firstName: the part of the profile that a registry entry and a
\* notification carry
FirstNames == {"Ann", "Bea"}
NoName == ""

\* socket.handshake.auth.token: absent, or a token that jwt.verify
\* refuses (bad signature, expired), or one it decodes to a payload with
\* or without a userId; "u9" is the id of no user row
Token(kind, userId) == [kind |-> kind, userId |-> userId]
NoToken == Token("missing", NoUser)
UnknownUser == "u9"
Tokens ==
  {NoToken, Token("invalid", NoUser), Token("expired", "u1"),
   Token("valid", NoUser)}
    \cup {Token("valid", u) : u \in Users \cup {UnknownUser}}

\* what the authentication middleware knows of a socket: the stage of its
\* handshake, the token it came with, the user id the token decoded to,
\* the error it was refused with.  A socket id serves one connection
\* attempt.
Handshake(stage, token, userId, error) ==
  [stage |-> stage, token |-> token, userId |-> userId, error |-> error]
NoHandshake == Handshake("none", NoToken, NoUser, "")

\* signup: the normalized emails a request can carry ("e1" and "e2" are
\* those of u1 and u2), and the ids new users get (uuidv4)
Emails == {"e1", "e3", "e4"}
NewUserIds == <<"u3", "u4", "u5", "u6">>
UserRow(id, email) == [id |-> id, email |-> email]
FirstUsers == {UserRow("u1", "e1"), UserRow("u2", "e2")}
SignupRequest(email, valid) == [email |-> email, valid |-> valid]
NoSignupRequest == SignupRequest("", FALSE)

VARIABLES
  userRows,      \* the User table: the rows, with id and email
  sstarted,      \* number of signup requests received so far
  spc,           \* per handler: where signup is suspended
  sreq,          \* per handler: the signup request being served
  snew,          \* per handler: id of the user row signup has created
  sresp,         \* per handler: the response sent for the last signup
  sockets,       \* socket.io: socket id -> the user it was opened for
  connectedUsers,\* the presence registry: user id -> socket id
  emitted,       \* the emit calls made on sockets, in order
  connectedNames,\* the presence registry: user id -> firstName of the entry
  handshake,     \* per socket: state of the authentication middleware
  profile,       \* the User table: user id -> firstName
  notifyCalls,   \* number of calls of notifyMoneyTransfer so far
  lpc,           \* per handler: where getTransactions is suspended
  lreq,          \* per handler: the listing request being served
  lresp,         \* per handler: the response sent for the last listing
  listed,        \* per handler: the transactions that response carried
  created,       \* number of account ids handed out so far (uuidv4)
  astarted,      \* number of account requests received so far
  apc,           \* per handler: where the accounts controller is suspended
  areq,          \* per handler: the account request being served
  accountCount,  \* per handler: the count createAdditionalAccount read
  apending,      \* per handler: flag writes buffered by the open $transaction
  aresp,         \* per handler: the response sent for the last account request
  accounts,      \* the Account table: id -> row
  transactions,  \* the Transaction table, in creation order
  nextId,        \* number of transaction ids handed out so far (uuidv4)
  started,       \* number of requests received so far
  pc,            \* per handler: where the controller is suspended
  req,           \* per handler: the request being served
  amountDecimal, \* per handler: the parsed amount
  fromAccount,   \* per handler: id of the source row the controller read
  toAccount,     \* per handler: id of the recipient row the controller read
  pending,       \* per handler: writes buffered by the open $transaction
  reads,         \* per handler: store reads the request has made
  writes,        \* per handler: store writes the request has issued
  resp           \* per handler: the response sent for the last request

vars == <<userRows, sstarted, spc, sreq, snew, sresp,
          accounts, transactions, nextId, started, pc, req, amountDecimal,
          fromAccount, toAccount, pending, reads, writes, resp,
          sockets, connectedUsers, emitted,
          connectedNames, handshake, profile, notifyCalls,
          lpc, lreq, lresp, listed,
          created, astarted, apc, areq, accountCount, apending, aresp>>

\* the state of the transfer handlers, of the account handlers and of the
\* socket server
transferOps == <<transactions, nextId, started, pc, req, amountDecimal,
                 fromAccount, toAccount, pending, reads, writes, resp>>
accountOps == <<created, astarted, apc, areq, accountCount, apending, aresp>>
presence == <<sockets, connectedUsers, emitted, connectedNames, handshake,
              profile, notifyCalls>>
listOps == <<lpc, lreq, lresp, listed>>
signupOps == <<userRows, sstarted, spc, sreq, snew, sresp>>

store == <<accounts, transactions>>
locals == <<amountDecimal, fromAccount, toAccount>>

\* ------------------------------------------------------------ decimal.js
\* new Decimal(v): numbers and numeric strings parse, anything else throws.
\* "NaN" is a string decimal.js accepts: the result is its not-a-number
\* value, which has no digits and no sign.  The model keeps 0 in the place
\* of its digits and lets IsNaN decide every test made on it.
NumericStrings == {"1000", "NaN"}
StringValue(s) == IF s = "1000" THEN 1000 ELSE 0
DecimalParses(v) ==
  \/ v.k = "number"
  \/ v.k = "string" /\ v.s \in NumericStrings
DecimalOf(v) == IF v.k = "number" THEN v.n ELSE StringValue(v.s)
IsNaN(v) == v.k = "string" /\ v.s = "NaN"

\* Decimal.isNegative, Decimal.isZero, Decimal.lessThan: each is false when
\* a not-a-number value is involved
isNegative(v) == ~IsNaN(v) /\ DecimalOf(v) < 0
isZero(v) == ~IsNaN(v) /\ DecimalOf(v) = 0
lessThan(balance, v) == ~IsNaN(v) /\ balance < DecimalOf(v)

\* ---------------------------------- repository: reads, as seen by mutants
\* findAccountByIdAndUser as it would be without the owner in the filter
findAccountByIdOnly(accountId, userId) ==
  IF accountId \in DOMAIN accounts
  THEN [id |-> accountId,
        userId |-> accounts[accountId].userId,
        accountNumber |-> accounts[accountId].accountNumber,
        balance |-> accounts[accountId].balance,
        defaultAccount |-> accounts[accountId].defaultAccount]
  ELSE NullAccount

\* --------------------------------------------------- repository: reads
Row(id) == [id |-> id,
            userId |-> accounts[id].userId,
            accountNumber |-> accounts[id].accountNumber,
            balance |-> accounts[id].balance,
            defaultAccount |-> accounts[id].defaultAccount]

findAccountByIdAndUser(accountId, userId) ==
  IF accountId \in DOMAIN accounts /\ accounts[accountId].userId = userId
  THEN Row(accountId)
  ELSE NullAccount

findAccountByNumber(accountNumber) ==
  IF \E id \in DOMAIN accounts : accounts[id].accountNumber = accountNumber
  THEN Row(CHOOSE id \in DOMAIN accounts :
             accounts[id].accountNumber = accountNumber)
  ELSE NullAccount

\* ------------------------------------------------------------ responses
Reply(status, message) == [status |-> status, message |-> message]
AuthRequired == Reply(UNAUTHORIZED, "Authentication required")
MissingFields == Reply(BAD_REQUEST, "Missing required fields")
SourceAccountNotFound ==
  Reply(NOT_FOUND, "Source account not found or unauthorized")
SameAccountTransfer ==
  Reply(BAD_REQUEST, "Source and recipient accounts cannot be the same")
AmountNotPositive == Reply(BAD_REQUEST, "Amount must be a positive number")
InvalidAmountFormat == Reply(BAD_REQUEST, "Invalid amount format")
InsufficientFunds == Reply(BAD_REQUEST, "Insufficient funds")
RecipientNotFound == Reply(NOT_FOUND, "Recipient account not found")
TransferCompleted == Reply(CREATED, "Transfer completed successfully")
InternalError ==
  Reply(INTERNAL_SERVER_ERROR,
        "An error occurred while processing the transfer")

\* Finish as it would be if a path returned without sending a response
FinishWithoutResponse(r, response) ==
  /\ pc' = [pc EXCEPT ![r] = "done"]
  /\ resp' = [resp EXCEPT ![r] = IF response.status = NOT_FOUND
                                  THEN NoResponse ELSE response]
  /\ amountDecimal' = [amountDecimal EXCEPT ![r] = 0]
  /\ fromAccount' = [fromAccount EXCEPT ![r] = NullAccount.id]
  /\ toAccount' = [toAccount EXCEPT ![r] = NullAccount.id]
  /\ pending' = [pending EXCEPT ![r] = <<>>]
  /\ req' = [req EXCEPT ![r] = NoRequest]

\* the handler answers and forgets the request and its locals; the store
\* is not touched
Finish(r, response) ==
  /\ pc' = [pc EXCEPT ![r] = "done"]
  /\ resp' = [resp EXCEPT ![r] = response]
  /\ amountDecimal' = [amountDecimal EXCEPT ![r] = 0]
  /\ fromAccount' = [fromAccount EXCEPT ![r] = NullAccount.id]
  /\ toAccount' = [toAccount EXCEPT ![r] = NullAccount.id]
  /\ pending' = [pending EXCEPT ![r] = <<>>]
  /\ req' = [req EXCEPT ![r] = NoRequest]

\* u1 and u2 are the users; no request is in flight, no socket is open
InitHandlers ==
  /\ started = 0
  /\ userRows = FirstUsers
  /\ sstarted = 0
  /\ spc = [r \in Handlers |-> "idle"]
  /\ sreq = [r \in Handlers |-> NoSignupRequest]
  /\ snew = [r \in Handlers |-> NoUser]
  /\ sresp = [r \in Handlers |-> NoResponse]
  /\ pc = [r \in Handlers |-> "idle"]
  /\ req = [r \in Handlers |-> NoRequest]
  /\ amountDecimal = [r \in Handlers |-> 0]
  /\ fromAccount = [r \in Handlers |-> NullAccount.id]
  /\ toAccount = [r \in Handlers |-> NullAccount.id]
  /\ pending = [r \in Handlers |-> <<>>]
  /\ reads = [r \in Handlers |-> 0]
  /\ writes = [r \in Handlers |-> 0]
  /\ resp = [r \in Handlers |-> NoResponse]
  /\ sockets = [s \in Sockets |-> NoUser]
  /\ connectedUsers = [u \in Users |-> NoSocket]
  /\ connectedNames = [u \in Users |-> NoName]
  /\ handshake = [s \in Sockets |-> NoHandshake]
  /\ profile = [u \in Users |-> "Ann"]
  /\ notifyCalls = 0
  /\ lpc = [r \in Handlers |-> "idle"]
  /\ lreq = [r \in Handlers |-> NoListRequest]
  /\ lresp = [r \in Handlers |-> NoResponse]
  /\ listed = [r \in Handlers |-> <<>>]
  /\ emitted = <<>>
  /\ astarted = 0
  /\ apc = [r \in Handlers |-> "idle"]
  /\ areq = [r \in Handlers |-> NoAccountRequest]
  /\ accountCount = [r \in Handlers |-> 0]
  /\ apending = [r \in Handlers |-> <<>>]
  /\ aresp = [r \in Handlers |-> NoResponse]

\* the two users have signed up: each has its first account, and nothing
\* has been transferred
Init ==
  /\ accounts = [id \in {"a1", "a2"} |->
       [userId |-> IF id = "a1" THEN "u1" ELSE "u2",
        accountNumber |-> IF id = "a1" THEN "n1" ELSE "n2",
        balance |-> DEFAULT_FIRST_ACCOUNT_BALANCE,
        defaultAccount |-> TRUE]]
  /\ transactions = <<>>
  /\ nextId = 0
  /\ created = 0
  /\ InitHandlers

\* ------------------------------------------- controller: transferFunds
\* lines 88-109: the request arrives; authentication and required fields
\* are checked, then the controller awaits the first source lookup
Receive(r, request) ==
  /\ pc[r] \in {"idle", "done"}
  /\ started < MaxRequests
  /\ started' = started + 1
  /\ IF request.user = NoUser
     THEN Finish(r, AuthRequired)
     ELSE IF request.accountId = Missing
             \/ request.recipientAccountNumber = Missing
             \/ request.amount = Undefined
     THEN Finish(r, MissingFields)
     ELSE /\ req' = [req EXCEPT ![r] = request]
          /\ pc' = [pc EXCEPT ![r] = "validate_source"]
          /\ resp' = [resp EXCEPT ![r] = NoResponse]
          /\ UNCHANGED <<locals, pending>>
  /\ reads' = [reads EXCEPT ![r] = 0]
  /\ writes' = [writes EXCEPT ![r] = 0]
  /\ UNCHANGED <<store, nextId>>
  /\ UNCHANGED <<accountOps, presence, listOps, signupOps>>

\* ValidateSource as it would be with the amount validated before the
\* source lookup is looked at
ValidateSourceAmountFirst(r) ==
  /\ pc[r] = "validate_source"
  /\ reads' = [reads EXCEPT ![r] = @ + 1]
  /\ LET validateUserAccount ==
           findAccountByIdAndUser(req[r].accountId, req[r].user)
     IN IF ~DecimalParses(req[r].amount)
        THEN Finish(r, InvalidAmountFormat)
        ELSE IF isNegative(req[r].amount) \/ isZero(req[r].amount)
        THEN Finish(r, AmountNotPositive)
        ELSE IF validateUserAccount = NullAccount
        THEN Finish(r, SourceAccountNotFound)
        ELSE IF validateUserAccount.accountNumber
                  = req[r].recipientAccountNumber
        THEN Finish(r, SameAccountTransfer)
        ELSE /\ amountDecimal' =
                  [amountDecimal EXCEPT ![r] = DecimalOf(req[r].amount)]
             /\ pc' = [pc EXCEPT ![r] = "check_funds"]
             /\ UNCHANGED <<req, fromAccount, toAccount, pending, resp>>
  /\ UNCHANGED <<store, nextId, started, writes>>
  /\ UNCHANGED <<accountOps, presence, listOps, signupOps>>

\* ValidateSource as it would be without the same-account comparison
ValidateSourceNoSameCheck(r) ==
  /\ pc[r] = "validate_source"
  /\ reads' = [reads EXCEPT ![r] = @ + 1]
  /\ LET validateUserAccount ==
           findAccountByIdAndUser(req[r].accountId, req[r].user)
     IN IF validateUserAccount = NullAccount
        THEN Finish(r, SourceAccountNotFound)
        ELSE IF ~DecimalParses(req[r].amount)
        THEN Finish(r, InvalidAmountFormat)
        ELSE IF isNegative(req[r].amount) \/ isZero(req[r].amount)
        THEN Finish(r, AmountNotPositive)
        ELSE /\ amountDecimal' =
                  [amountDecimal EXCEPT ![r] = DecimalOf(req[r].amount)]
             /\ pc' = [pc EXCEPT ![r] = "check_funds"]
             /\ UNCHANGED <<req, fromAccount, toAccount, pending, resp>>
  /\ UNCHANGED <<store, nextId, started, writes>>
  /\ UNCHANGED <<accountOps, presence, listOps, signupOps>>

\* ValidateSource as it would be if the recipient were looked up as well
\* before the two accounts are compared
ValidateSourceAfterRecipientRead(r) ==
  /\ pc[r] = "validate_source"
  /\ reads' = [reads EXCEPT ![r] = @ + 2]
  /\ LET validateUserAccount ==
           findAccountByIdAndUser(req[r].accountId, req[r].user)
         recipient == findAccountByNumber(req[r].recipientAccountNumber)
     IN IF validateUserAccount = NullAccount
        THEN Finish(r, SourceAccountNotFound)
        ELSE IF validateUserAccount.id = recipient.id
        THEN Finish(r, SameAccountTransfer)
        ELSE IF ~DecimalParses(req[r].amount)
        THEN Finish(r, InvalidAmountFormat)
        ELSE IF isNegative(req[r].amount) \/ isZero(req[r].amount)
        THEN Finish(r, AmountNotPositive)
        ELSE /\ amountDecimal' =
                  [amountDecimal EXCEPT ![r] = DecimalOf(req[r].amount)]
             /\ pc' = [pc EXCEPT ![r] = "check_funds"]
             /\ UNCHANGED <<req, fromAccount, toAccount, pending, resp>>
  /\ UNCHANGED <<store, nextId, started, writes>>
  /\ UNCHANGED <<accountOps, presence, listOps, signupOps>>

\* lines 106-145: the first source lookup has resolved; ownership, the
\* same-account rule and the amount are checked, then the controller
\* awaits the second source lookup
ValidateSource(r) ==
  /\ pc[r] = "validate_source"
  /\ reads' = [reads EXCEPT ![r] = @ + 1]
  /\ LET validateUserAccount ==
           findAccountByIdAndUser(req[r].accountId, req[r].user)
     IN IF validateUserAccount = NullAccount
        THEN Finish(r, SourceAccountNotFound)
        ELSE IF validateUserAccount.accountNumber
                  = req[r].recipientAccountNumber
        THEN Finish(r, SameAccountTransfer)
        ELSE IF ~DecimalParses(req[r].amount)
        THEN Finish(r, InvalidAmountFormat)
        ELSE IF isNegative(req[r].amount) \/ isZero(req[r].amount)
        THEN Finish(r, AmountNotPositive)
        ELSE /\ amountDecimal' =
                  [amountDecimal EXCEPT ![r] = DecimalOf(req[r].amount)]
             /\ pc' = [pc EXCEPT ![r] = "check_funds"]
             /\ UNCHANGED <<req, fromAccount, toAccount, pending, resp>>
  /\ UNCHANGED <<store, nextId, started, writes>>
  /\ UNCHANGED <<accountOps, presence, listOps, signupOps>>

\* CheckFunds as it would be with lessThanOrEqualTo in the place of
\* lessThan: a transfer of the whole balance is turned away
CheckFundsOrEqual(r) ==
  /\ pc[r] = "check_funds"
  /\ reads' = [reads EXCEPT ![r] = @ + 1]
  /\ LET found == findAccountByIdAndUser(req[r].accountId, req[r].user)
     IN IF found = NullAccount
        THEN Finish(r, SourceAccountNotFound)
        ELSE IF ~IsNaN(req[r].amount) /\ found.balance <= amountDecimal[r]
        THEN Finish(r, InsufficientFunds)
        ELSE /\ fromAccount' = [fromAccount EXCEPT ![r] = found.id]
             /\ pc' = [pc EXCEPT ![r] = "find_recipient"]
             /\ UNCHANGED <<req, amountDecimal, toAccount, pending, resp>>
  /\ UNCHANGED <<store, nextId, started, writes>>
  /\ UNCHANGED <<accountOps, presence, listOps, signupOps>>

\* lines 145-164: the second source lookup has resolved; the balance it
\* returned is compared with the amount, then the controller awaits the
\* recipient lookup
CheckFunds(r) ==
  /\ pc[r] = "check_funds"
  /\ reads' = [reads EXCEPT ![r] = @ + 1]
  /\ LET found == findAccountByIdAndUser(req[r].accountId, req[r].user)
     IN IF found = NullAccount
        THEN Finish(r, SourceAccountNotFound)
        ELSE IF lessThan(found.balance, req[r].amount)
        THEN Finish(r, InsufficientFunds)
        ELSE /\ fromAccount' = [fromAccount EXCEPT ![r] = found.id]
             /\ pc' = [pc EXCEPT ![r] = "find_recipient"]
             /\ UNCHANGED <<req, amountDecimal, toAccount, pending, resp>>
  /\ UNCHANGED <<store, nextId, started, writes>>
  /\ UNCHANGED <<accountOps, presence, listOps, signupOps>>

\* FindRecipient as it would be if the debit were issued before the
\* recipient lookup: the rejection comes after a mutating step
FindRecipientAfterDebit(r) ==
  /\ pc[r] = "find_recipient"
  /\ reads' = [reads EXCEPT ![r] = @ + 1]
  /\ accounts' = [accounts EXCEPT ![fromAccount[r]].balance =
                    @ - amountDecimal[r]]
  /\ LET found == findAccountByNumber(req[r].recipientAccountNumber)
     IN IF found = NullAccount
        THEN Finish(r, RecipientNotFound)
        ELSE /\ toAccount' = [toAccount EXCEPT ![r] = found.id]
             /\ pc' = [pc EXCEPT ![r] = "tx_credit"]
             /\ UNCHANGED <<req, amountDecimal, fromAccount, pending, resp>>
  /\ UNCHANGED <<transactions, nextId, started, writes>>
  /\ UNCHANGED <<accountOps, presence, listOps, signupOps>>

\* lines 164-178: the recipient lookup has resolved; executeTransfer is
\* called and opens its $transaction
FindRecipient(r) ==
  /\ pc[r] = "find_recipient"
  /\ reads' = [reads EXCEPT ![r] = @ + 1]
  /\ LET found == findAccountByNumber(req[r].recipientAccountNumber)
     IN IF found = NullAccount
        THEN Finish(r, RecipientNotFound)
        ELSE /\ toAccount' = [toAccount EXCEPT ![r] = found.id]
             /\ pc' = [pc EXCEPT ![r] = "tx_debit"]
             /\ UNCHANGED <<req, amountDecimal, fromAccount, pending, resp>>
  /\ UNCHANGED <<store, nextId, started, writes>>
  /\ UNCHANGED <<accountOps, presence, listOps, signupOps>>

\* ------------------------------------------- repository: transferFunds
\* the writes of an interactive $transaction are buffered and reach the
\* tables together when it commits; balance updates are relative
\* (decrement / increment), so they apply to the balance found at commit
Decrement(id, amount) ==
  [op |-> "decrement", id |-> id, amount |-> amount, to |-> ""]
Increment(id, amount) ==
  [op |-> "increment", id |-> id, amount |-> amount, to |-> ""]
Create(id, reference, from, to, amount) ==
  [op |-> "create", id |-> from, amount |-> amount, to |-> to, txid |-> id,
   reference |-> reference]

\* lines 125-127: `TRX-${Date.now()}-${Math.floor(Math.random() * 1000)}`.
\* The transfers of one behaviour fall into one millisecond of Date.now(),
\* and two of the thousand suffixes are drawn (one where the reference plays
\* no part).
Now == {1}
RandomSuffixes == {0, 1}
SameSuffix == {0}
transactionReference(now, suffix) == <<"TRX", now, suffix>>

ApplyAccountWrite(acc, w) ==
  IF w.op = "decrement"
  THEN [acc EXCEPT ![w.id].balance = @ - w.amount]
  ELSE IF w.op = "increment"
  THEN [acc EXCEPT ![w.id].balance = @ + w.amount]
  ELSE acc

RECURSIVE ApplyAccountWrites(_, _)
ApplyAccountWrites(acc, ws) ==
  IF ws = <<>> THEN acc
  ELSE ApplyAccountWrites(ApplyAccountWrite(acc, Head(ws)), Tail(ws))

RECURSIVE CreatedRecords(_)
CreatedRecords(ws) ==
  IF ws = <<>> THEN <<>>
  ELSE IF Head(ws).op = "create"
  THEN <<[id |-> Head(ws).txid, reference |-> Head(ws).reference,
          fromAccountId |-> Head(ws).id,
          toAccountId |-> Head(ws).to, amount |-> Head(ws).amount]>>
       \o CreatedRecords(Tail(ws))
  ELSE CreatedRecords(Tail(ws))

\* ExecDebit as it would be without the $transaction wrapper: the
\* decrement reaches the table at once
ExecDebitAutocommit(r) ==
  /\ pc[r] = "tx_debit"
  /\ ~IsNaN(req[r].amount)
  /\ accounts' = [accounts EXCEPT ![fromAccount[r]].balance =
                    @ - amountDecimal[r]]
  /\ writes' = [writes EXCEPT ![r] = @ + 1]
  /\ pc' = [pc EXCEPT ![r] = "tx_credit"]
  /\ UNCHANGED <<transactions, nextId, started, req, locals, pending,
                 reads, resp>>
  /\ UNCHANGED <<accountOps, presence, listOps, signupOps>>

\* lines 132-135: the decrement is handed amount.toString(); the store
\* client takes no "NaN" for a Decimal column, so for such an amount the
\* call can only throw (StoreError)
ExecDebit(r) ==
  /\ pc[r] = "tx_debit"
  /\ ~IsNaN(req[r].amount)
  /\ pending' = [pending EXCEPT ![r] =
       Append(@, Decrement(fromAccount[r], amountDecimal[r]))]
  /\ writes' = [writes EXCEPT ![r] = @ + 1]
  /\ pc' = [pc EXCEPT ![r] = "tx_credit"]
  /\ UNCHANGED <<store, nextId, started, req, locals, reads, resp>>
  /\ UNCHANGED <<accountOps, presence, listOps, signupOps>>

\* ExecCredit as it would be if it credited half of the amount
ExecCreditHalf(r) ==
  /\ pc[r] = "tx_credit"
  /\ pending' = [pending EXCEPT ![r] =
       Append(@, Increment(toAccount[r], amountDecimal[r] \div 2))]
  /\ writes' = [writes EXCEPT ![r] = @ + 1]
  /\ pc' = [pc EXCEPT ![r] = "tx_create"]
  /\ UNCHANGED <<store, nextId, started, req, locals, reads, resp>>
  /\ UNCHANGED <<accountOps, presence, listOps, signupOps>>

\* lines 138-141
ExecCredit(r) ==
  /\ pc[r] = "tx_credit"
  /\ pending' = [pending EXCEPT ![r] =
       Append(@, Increment(toAccount[r], amountDecimal[r]))]
  /\ writes' = [writes EXCEPT ![r] = @ + 1]
  /\ pc' = [pc EXCEPT ![r] = "tx_create"]
  /\ UNCHANGED <<store, nextId, started, req, locals, reads, resp>>
  /\ UNCHANGED <<accountOps, presence, listOps, signupOps>>

\* lines 125-127 and 144-152: the record gets a fresh uuid and the
\* reference generated at the start of the repository call
ExecCreate(r, now, suffix) ==
  /\ pc[r] = "tx_create"
  /\ nextId' = nextId + 1
  /\ pending' = [pending EXCEPT ![r] =
       Append(@, Create(nextId + 1, transactionReference(now, suffix),
                        fromAccount[r], toAccount[r], amountDecimal[r]))]
  /\ writes' = [writes EXCEPT ![r] = @ + 1]
  /\ pc' = [pc EXCEPT ![r] = "tx_commit"]
  /\ UNCHANGED <<store, started, req, locals, reads, resp>>
  /\ UNCHANGED <<accountOps, presence, listOps, signupOps>>

\* Commit as it would be if the balances were written and the record
\* were not
CommitWithoutRecord(r) ==
  /\ pc[r] = "tx_commit"
  /\ accounts' = ApplyAccountWrites(accounts, pending[r])
  /\ pending' = [pending EXCEPT ![r] = <<>>]
  /\ pc' = [pc EXCEPT ![r] = "notify"]
  /\ UNCHANGED <<transactions, nextId, started, req, locals, reads, writes,
                 resp>>
  /\ UNCHANGED <<accountOps, presence, listOps, signupOps>>

\* Commit as it would be if a transfer equal to a recorded one (same
\* source, destination and amount) were taken for a repetition and dropped
CommitDeduplicated(r) ==
  /\ pc[r] = "tx_commit"
  /\ IF \E i \in 1..Len(transactions) :
          /\ transactions[i].fromAccountId = fromAccount[r]
          /\ transactions[i].toAccountId = toAccount[r]
          /\ transactions[i].amount = amountDecimal[r]
     THEN UNCHANGED <<accounts, transactions>>
     ELSE /\ accounts' = ApplyAccountWrites(accounts, pending[r])
          /\ transactions' = transactions \o CreatedRecords(pending[r])
  /\ pending' = [pending EXCEPT ![r] = <<>>]
  /\ pc' = [pc EXCEPT ![r] = "notify"]
  /\ UNCHANGED <<nextId, started, req, locals, reads, writes, resp>>
  /\ UNCHANGED <<accountOps, presence, listOps, signupOps>>

\* lines 130 and 182: the callback has returned and the $transaction
\* commits: every buffered write reaches the tables in one step
Commit(r) ==
  /\ pc[r] = "tx_commit"
  /\ accounts' = ApplyAccountWrites(accounts, pending[r])
  /\ transactions' = transactions \o CreatedRecords(pending[r])
  /\ pending' = [pending EXCEPT ![r] = <<>>]
  /\ pc' = [pc EXCEPT ![r] = "notify"]
  /\ UNCHANGED <<nextId, started, req, locals, reads, writes, resp>>
  /\ UNCHANGED <<accountOps, presence, listOps, signupOps>>

\* ---------------------------------------------------- socketMiddleware
\* isUserConnected: connectedUsers.has(userId)
isUserConnected(userId) == connectedUsers[userId] # NoSocket

\* Register as it would be if an existing entry were kept
RegisterKeepFirst(s, u) ==
  /\ sockets' = [sockets EXCEPT ![s] = u]
  /\ IF connectedUsers[u] = NoSocket
     THEN /\ connectedUsers' = [connectedUsers EXCEPT ![u] = s]
          /\ connectedNames' = [connectedNames EXCEPT ![u] = profile[u]]
     ELSE UNCHANGED <<connectedUsers, connectedNames>>
  /\ handshake' = [handshake EXCEPT ![s] = Handshake("accepted", Token("valid", u), u, "")]

\* connection handler: the socket was authenticated for user u;
\* connectedUsers.set(userId, {socketId, firstName, ..}) replaces any
\* earlier entry of u with this socket and the user row the middleware read
Register(s, u) ==
  /\ sockets' = [sockets EXCEPT ![s] = u]
  /\ connectedUsers' = [connectedUsers EXCEPT ![u] = s]
  /\ connectedNames' = [connectedNames EXCEPT ![u] = profile[u]]
  /\ handshake' = [handshake EXCEPT ![s] = Handshake("accepted", Token("valid", u), u, "")]

\* a connection of user u is accepted on socket s: the middleware has
\* verified the token and found the user, and the connection handler runs
Connect(s, u) ==
  /\ sockets[s] = NoUser
  /\ handshake[s] = NoHandshake
  /\ Register(s, u)
  /\ UNCHANGED <<accounts, transferOps, accountOps, listOps, signupOps>>
  /\ UNCHANGED <<emitted, profile, notifyCalls>>

\* Disconnect as it would be if the handler only logged
DisconnectKeepsEntry(s) ==
  /\ sockets[s] # NoUser
  /\ sockets' = [sockets EXCEPT ![s] = NoUser]
  /\ handshake' = [handshake EXCEPT ![s] =
                     Handshake("closed", handshake[s].token, sockets[s], "")]
  /\ UNCHANGED <<connectedUsers, connectedNames>>
  /\ UNCHANGED <<accounts, transferOps, accountOps, listOps, signupOps>>
  /\ UNCHANGED <<emitted, profile, notifyCalls>>

\* Disconnect as it would be if closing a socket also dropped the writes
\* of the open transactions of the socket's user
DisconnectCancelsTransfers(s) ==
  /\ sockets[s] # NoUser
  /\ connectedUsers' = [connectedUsers EXCEPT ![sockets[s]] = NoSocket]
  /\ connectedNames' = [connectedNames EXCEPT ![sockets[s]] = NoName]
  /\ sockets' = [sockets EXCEPT ![s] = NoUser]
  /\ handshake' = [handshake EXCEPT ![s] =
                     Handshake("closed", handshake[s].token, sockets[s], "")]
  /\ pending' = [r \in Handlers |->
                  IF req[r] # NoRequest /\ req[r].user = sockets[s]
                  THEN <<>> ELSE pending[r]]
  /\ UNCHANGED <<accounts, transactions, nextId, started, pc, req,
                 amountDecimal, fromAccount, toAccount, reads, writes, resp>>
  /\ UNCHANGED <<accountOps, listOps, signupOps>>
  /\ UNCHANGED <<emitted, profile, notifyCalls>>

\* "disconnect" handler of a socket: connectedUsers.delete(userId) deletes
\* the registry entry of the socket's user
Disconnect(s) ==
  /\ sockets[s] # NoUser
  /\ connectedUsers' = [connectedUsers EXCEPT ![sockets[s]] = NoSocket]
  /\ connectedNames' = [connectedNames EXCEPT ![sockets[s]] = NoName]
  /\ sockets' = [sockets EXCEPT ![s] = NoUser]
  /\ handshake' = [handshake EXCEPT ![s] =
                     Handshake("closed", handshake[s].token, sockets[s], "")]
  /\ UNCHANGED <<accounts, transferOps, accountOps, listOps, signupOps>>
  /\ UNCHANGED <<emitted, profile, notifyCalls>>

\* jwt.verify: throws unless the signature is good and the token current
jwtVerifies(token) == token.kind = "valid"

Rejected(token, error) == Handshake("rejected", token, NoUser, error)

\* the synchronous part of the middleware as it would be if the expiry of
\* a token were not checked
AuthenticateIgnoreExpiry(s, token) ==
  /\ sockets[s] = NoUser
  /\ handshake[s] = NoHandshake
  /\ handshake' = [handshake EXCEPT ![s] =
       IF token = NoToken
       THEN Rejected(token, "Authentication token missing")
       ELSE IF token.kind = "invalid"
       THEN Rejected(token, "Authentication failed")
       ELSE IF token.userId = NoUser
       THEN Rejected(token, "Invalid authentication token")
       ELSE Handshake("lookup", token, token.userId, "")]
  /\ UNCHANGED <<sockets, connectedUsers, connectedNames>>
  /\ UNCHANGED <<accounts, transferOps, accountOps, listOps, signupOps>>
  /\ UNCHANGED <<emitted, profile, notifyCalls>>

\* io.use middleware, lines 202-221: a connection attempt arrives on a new
\* socket; the token is checked and verified, and the middleware awaits
\* findUserById for the user id of the payload
Authenticate(s, token) ==
  /\ sockets[s] = NoUser
  /\ handshake[s] = NoHandshake
  /\ handshake' = [handshake EXCEPT ![s] =
       IF token = NoToken
       THEN Rejected(token, "Authentication token missing")
       ELSE IF ~jwtVerifies(token)
       THEN Rejected(token, "Authentication failed")
       ELSE IF token.userId = NoUser
       THEN Rejected(token, "Invalid authentication token")
       ELSE Handshake("lookup", token, token.userId, "")]
  /\ UNCHANGED <<sockets, connectedUsers, connectedNames>>
  /\ UNCHANGED <<accounts, transferOps, accountOps, listOps, signupOps>>
  /\ UNCHANGED <<emitted, profile, notifyCalls>>

\* lines 221-256: findUserById has resolved.  Without a user row the
\* connection is refused; with one, next() lets the connection handler
\* run, which registers the socket with the row that was read
AuthenticateLookup(s) ==
  /\ handshake[s].stage = "lookup"
  /\ IF handshake[s].userId \in Users
     THEN Register(s, handshake[s].userId)
     ELSE /\ handshake' = [handshake EXCEPT ![s] =
                             Rejected(@.token, "User not found")]
          /\ UNCHANGED <<sockets, connectedUsers, connectedNames>>
  /\ UNCHANGED <<accounts, transferOps, accountOps, listOps, signupOps>>
  /\ UNCHANGED <<emitted, profile, notifyCalls>>

\* lines 233-238: findUserById has thrown
AuthenticateError(s) ==
  /\ handshake[s].stage = "lookup"
  /\ handshake' = [handshake EXCEPT ![s] =
                     Rejected(@.token, "Authentication failed")]
  /\ UNCHANGED <<sockets, connectedUsers, connectedNames>>
  /\ UNCHANGED <<accounts, transferOps, accountOps, listOps, signupOps>>
  /\ UNCHANGED <<emitted, profile, notifyCalls>>

\* userRepository.updateUserProfile: the first name of a user row changes;
\* registry entries keep the name they were made with
updateUserProfile(id, firstName) ==
  /\ profile' = [profile EXCEPT ![id] = firstName]
  /\ UNCHANGED <<accounts, transferOps, accountOps, listOps, signupOps>>
  /\ UNCHANGED <<sockets, connectedUsers, emitted, connectedNames,
                 handshake, notifyCalls>>

\* one call of io.to(socketId).emit(event, ..): it returns or it throws
\* with the other party's name (from / to) and the amount
Event(to, event, name, amount, threw) ==
  [to |-> to, event |-> event, name |-> name, amount |-> amount,
   threw |-> threw]

\* notifyMoneyTransfer as it would be if the recipient were pushed to
\* without looking at the registry entry
notifyMoneyTransferUnchecked(amount, senderUser, recipientUser, recipientThrows, senderThrows) ==
  LET recipientConnection == connectedUsers[recipientUser]
      senderConnection == connectedUsers[senderUser]
      toRecipient ==
        <<Event(recipientConnection, "money-transfer", profile[senderUser],
                amount, recipientThrows)>>
      toSender ==
        IF ~recipientThrows /\ senderConnection # NoSocket
        THEN <<Event(senderConnection, "money-sent", profile[recipientUser],
                     amount, senderThrows)>>
        ELSE <<>>
  IN toRecipient \o toSender

\* notifyMoneyTransfer: the emit calls it makes.  A throw ends the try
\* block, so a failing push to the recipient also skips the push to the
\* sender.  The catch block only logs.
notifyMoneyTransfer(amount, senderUser, recipientUser, recipientThrows, senderThrows) ==
  LET recipientConnection == connectedUsers[recipientUser]
      senderConnection == connectedUsers[senderUser]
      recipientFailed == recipientConnection # NoSocket /\ recipientThrows
      toRecipient ==
        IF recipientConnection # NoSocket
        THEN <<Event(recipientConnection, "money-transfer",
                     profile[senderUser], amount, recipientThrows)>>
        ELSE <<>>
      toSender ==
        IF ~recipientFailed /\ senderConnection # NoSocket
        THEN <<Event(senderConnection, "money-sent", profile[recipientUser],
                     amount, senderThrows)>>
        ELSE <<>>
  IN toRecipient \o toSender

\* Respond as it would be without the try/catch around the notifier: a
\* failing push reaches the controller's outer catch
RespondNotifierUnguarded(r) ==
  /\ pc[r] = "notify"
  /\ \E recipientThrows, senderThrows \in BOOLEAN :
       LET senderUser == accounts[fromAccount[r]].userId
           recipientUser == accounts[toAccount[r]].userId
           failed ==
             \/ connectedUsers[recipientUser] # NoSocket /\ recipientThrows
             \/ connectedUsers[senderUser] # NoSocket /\ senderThrows
       IN /\ emitted' = emitted \o
               notifyMoneyTransfer(amountDecimal[r], senderUser,
                                   recipientUser, recipientThrows,
                                   senderThrows)
          /\ IF failed THEN Finish(r, InternalError)
                       ELSE Finish(r, TransferCompleted)
  /\ UNCHANGED <<store, nextId, started, reads, writes>>
  /\ notifyCalls' = notifyCalls + 1
  /\ UNCHANGED <<accountOps, listOps, signupOps>>
  /\ UNCHANGED <<sockets, connectedUsers, connectedNames, handshake, profile>>

\* controller lines 180-216: executeTransfer has resolved; the notifier is
\* called inside its own try/catch with the owners of the two accounts,
\* and the success response is sent
Respond(r) ==
  /\ pc[r] = "notify"
  /\ \E recipientThrows, senderThrows \in BOOLEAN :
       LET senderUser == accounts[fromAccount[r]].userId
           recipientUser == accounts[toAccount[r]].userId
       IN emitted' = emitted \o
            notifyMoneyTransfer(amountDecimal[r], senderUser, recipientUser,
                                recipientThrows, senderThrows)
  /\ Finish(r, TransferCompleted)
  /\ UNCHANGED <<store, nextId, started, reads, writes>>
  /\ notifyCalls' = notifyCalls + 1
  /\ UNCHANGED <<accountOps, listOps, signupOps>>
  /\ UNCHANGED <<sockets, connectedUsers, connectedNames, handshake, profile>>

\* any call into the store can throw (repository catch blocks rethrow);
\* an open $transaction is rolled back and the controller's catch answers
\* with the generic error (controller lines 217-223)
AwaitingStore(r) ==
  pc[r] \in {"validate_source", "check_funds", "find_recipient",
             "tx_debit", "tx_credit", "tx_create", "tx_commit"}

\* StoreError as it would be if a failing transaction kept the writes it
\* had issued instead of rolling them back
StoreErrorNoRollback(r) ==
  /\ AwaitingStore(r)
  /\ accounts' = ApplyAccountWrites(accounts, pending[r])
  /\ transactions' = transactions \o CreatedRecords(pending[r])
  /\ Finish(r, InternalError)
  /\ UNCHANGED <<nextId, started, reads, writes>>
  /\ UNCHANGED <<accountOps, presence, listOps, signupOps>>

\* StoreError as it would be if the parties were notified of a transfer
\* whose commit has failed
StoreErrorNotified(r) ==
  /\ AwaitingStore(r)
  /\ emitted' =
       IF pc[r] = "tx_commit"
       THEN emitted \o
              notifyMoneyTransfer(amountDecimal[r],
                                  accounts[fromAccount[r]].userId,
                                  accounts[toAccount[r]].userId, FALSE, FALSE)
       ELSE emitted
  /\ Finish(r, InternalError)
  /\ UNCHANGED <<store, nextId, started, reads, writes>>
  /\ UNCHANGED <<sockets, connectedUsers, connectedNames, handshake, profile,
                 notifyCalls>>
  /\ UNCHANGED <<accountOps, listOps, signupOps>>

StoreError(r) ==
  /\ AwaitingStore(r)
  /\ Finish(r, InternalError)
  /\ UNCHANGED <<store, nextId, started, reads, writes>>
  /\ UNCHANGED <<accountOps, presence, listOps, signupOps>>

\* --------------------------------------- controller: getTransactions
MissingAccountId == Reply(BAD_REQUEST, "Missing accountId in query")
AccountNotOwned == Reply(NOT_FOUND, "Account not found or not owned")
TransactionsRetrieved == Reply(OK, "Transactions retrieved successfully")
ListError ==
  Reply(INTERNAL_SERVER_ERROR,
        "An error occurred while retrieving transactions")

LFinish(r, response, data) ==
  /\ lpc' = [lpc EXCEPT ![r] = "done"]
  /\ lresp' = [lresp EXCEPT ![r] = response]
  /\ listed' = [listed EXCEPT ![r] = data]
  /\ lreq' = [lreq EXCEPT ![r] = NoListRequest]

\* lines 23-45: authentication and the accountId query parameter are
\* checked, then the controller awaits the lookup of the caller's account
getTransactions(r, user, accountId) ==
  /\ lpc[r] \in {"idle", "done"}
  /\ IF user = NoUser
     THEN LFinish(r, AuthRequired, <<>>)
     ELSE IF accountId = Missing
     THEN LFinish(r, MissingAccountId, <<>>)
     ELSE /\ lreq' = [lreq EXCEPT ![r] = ListRequest(user, accountId)]
          /\ lpc' = [lpc EXCEPT ![r] = "l_find"]
          /\ lresp' = [lresp EXCEPT ![r] = NoResponse]
          /\ listed' = [listed EXCEPT ![r] = <<>>]
  /\ UNCHANGED <<accounts, transferOps, accountOps, presence, signupOps>>

\* lines 45-58: the lookup has resolved; without a row the answer is 404,
\* else the controller awaits getAccountTransactions
ListFindAccount(r) ==
  /\ lpc[r] = "l_find"
  /\ IF findAccountByIdAndUser(lreq[r].accountId, lreq[r].user) = NullAccount
     THEN LFinish(r, AccountNotOwned, <<>>)
     ELSE /\ lpc' = [lpc EXCEPT ![r] = "l_list"]
          /\ UNCHANGED <<lreq, lresp, listed>>
  /\ UNCHANGED <<accounts, transferOps, accountOps, presence, signupOps>>

\* orderBy createdAt desc.  createdAt is the time of the create statement;
\* the ids of the model are handed out in the order of the create
\* statements, which need not be the order of the commits
RECURSIVE OrderByCreatedAtDesc(_)
OrderByCreatedAtDesc(seq) ==
  IF seq = <<>> THEN <<>>
  ELSE LET i == CHOOSE i \in 1..Len(seq) :
                  \A j \in 1..Len(seq) : seq[j].id <= seq[i].id
       IN <<seq[i]>>
            \o OrderByCreatedAtDesc(SubSeq(seq, 1, i - 1)
                                      \o SubSeq(seq, i + 1, Len(seq)))

Take(seq, n) == SubSeq(seq, 1, IF Len(seq) < n THEN Len(seq) ELSE n)

Touches(accountId, t) ==
  t.fromAccountId = accountId \/ t.toAccountId = accountId

\* getAccountTransactions as it would be without take: limit
getAccountTransactionsUnlimited(accountId, limit, offset) ==
  LET matching == SelectSeq(transactions, LAMBDA t : Touches(accountId, t))
      newestFirst == OrderByCreatedAtDesc(matching)
  IN SubSeq(newestFirst, offset + 1, Len(newestFirst))

\* repository lines 14-64: findMany where the account is the source or the
\* destination, newest first, at most limit rows after skipping offset
getAccountTransactions(accountId, limit, offset) ==
  LET matching == SelectSeq(transactions, LAMBDA t : Touches(accountId, t))
      newestFirst == OrderByCreatedAtDesc(matching)
  IN Take(SubSeq(newestFirst, offset + 1, Len(newestFirst)), limit)

\* ListTransactions as it would be if the listing stored the rows it
\* sends, newest first, in place of the ledger
ListTransactionsRewriting(r) ==
  /\ lpc[r] = "l_list"
  /\ LFinish(r, TransactionsRetrieved,
             getAccountTransactions(lreq[r].accountId, TRANSACTIONS_LIMIT, 0))
  /\ transactions' =
       getAccountTransactions(lreq[r].accountId, TRANSACTIONS_LIMIT, 0)
  /\ UNCHANGED <<accounts, nextId, started, pc, req, amountDecimal,
                 fromAccount, toAccount, pending, reads, writes, resp>>
  /\ UNCHANGED <<accountOps, presence, signupOps>>

\* lines 55-69: the rows are sent with 200
ListTransactions(r) ==
  /\ lpc[r] = "l_list"
  /\ LFinish(r, TransactionsRetrieved,
             getAccountTransactions(lreq[r].accountId, TRANSACTIONS_LIMIT, 0))
  /\ UNCHANGED <<accounts, transferOps, accountOps, presence, signupOps>>

\* lines 70-76: a store call has thrown
ListStoreError(r) ==
  /\ lpc[r] \in {"l_find", "l_list"}
  /\ LFinish(r, ListError, <<>>)
  /\ UNCHANGED <<accounts, transferOps, accountOps, presence, signupOps>>

\* ------------------------------ accountsController / accountRepository
AccountNotFound == Reply(NOT_FOUND, "Account not found")
SetAsDefault == Reply(OK, "Account set as default successfully")
BodyNotEmpty ==
  Reply(BAD_REQUEST,
        "Request body should be empty. No additional data is required.")
AccountLimitReached ==
  Reply(FORBIDDEN,
        "Account limit reached. You cannot create more than 3 accounts.")
AccountCreated == Reply(CREATED, "New account created successfully")
UpdateError ==
  Reply(INTERNAL_SERVER_ERROR,
        "An error occurred while updating the account")
CreateError ==
  Reply(INTERNAL_SERVER_ERROR,
        "An error occurred while creating the account")

AccountsOf(userId) == {id \in DOMAIN accounts : accounts[id].userId = userId}
DefaultsOf(userId) == {id \in AccountsOf(userId) : accounts[id].defaultAccount}

\* the account handler answers and forgets the request and its locals
AFinish(r, response) ==
  /\ apc' = [apc EXCEPT ![r] = "done"]
  /\ aresp' = [aresp EXCEPT ![r] = response]
  /\ areq' = [areq EXCEPT ![r] = NoAccountRequest]
  /\ accountCount' = [accountCount EXCEPT ![r] = 0]
  /\ apending' = [apending EXCEPT ![r] = <<>>]

\* updateAccount, lines 97-112: authentication is checked, then the
\* controller awaits setAccountAsDefault, which awaits its findFirst
updateAccount(r, user, accountId) ==
  /\ apc[r] \in {"idle", "done"}
  /\ astarted < MaxAccountRequests
  /\ astarted' = astarted + 1
  /\ IF user = NoUser
     THEN AFinish(r, AuthRequired)
     ELSE /\ areq' = [areq EXCEPT ![r] =
                 AccountRequest("updateAccount", user, accountId, 0)]
          /\ apc' = [apc EXCEPT ![r] = "sd_find"]
          /\ aresp' = [aresp EXCEPT ![r] = NoResponse]
          /\ UNCHANGED <<accountCount, apending>>
  /\ UNCHANGED <<accounts, created, transferOps, presence, listOps, signupOps>>

\* SetDefaultFind as it would be with a findFirst that filters on the id
\* alone
SetDefaultFindAnyOwner(r) ==
  /\ apc[r] = "sd_find"
  /\ IF areq[r].accountId \notin DOMAIN accounts
     THEN AFinish(r, AccountNotFound)
     ELSE /\ apc' = [apc EXCEPT ![r] = "sd_unset"]
          /\ UNCHANGED <<areq, accountCount, apending, aresp>>
  /\ UNCHANGED <<accounts, created, astarted, transferOps, presence, listOps, signupOps>>

\* setAccountAsDefault, lines 130-142: findFirst {id, userId} has resolved;
\* without a row the repository returns null and the controller answers
\* 404, else the $transaction is opened
SetDefaultFind(r) ==
  /\ apc[r] = "sd_find"
  /\ IF findAccountByIdAndUser(areq[r].accountId, areq[r].user) = NullAccount
     THEN AFinish(r, AccountNotFound)
     ELSE /\ apc' = [apc EXCEPT ![r] = "sd_unset"]
          /\ UNCHANGED <<areq, accountCount, apending, aresp>>
  /\ UNCHANGED <<accounts, created, astarted, transferOps, presence, listOps, signupOps>>

\* a flag write of the open $transaction
SetFlag(id, value) == [id |-> id, defaultAccount |-> value]

\* ApplyFlagWrites as it would be if the row that takes the flag were
\* written whole, with the balance of a first account
RECURSIVE ApplyFlagWritesWholeRow(_, _)
ApplyFlagWritesWholeRow(acc, ws) ==
  IF ws = <<>> THEN acc
  ELSE ApplyFlagWritesWholeRow(
         [acc EXCEPT ![Head(ws).id] =
            [@ EXCEPT !.defaultAccount = Head(ws).defaultAccount,
                      !.balance = IF Head(ws).defaultAccount
                                  THEN DEFAULT_FIRST_ACCOUNT_BALANCE
                                  ELSE @]],
         Tail(ws))

RECURSIVE ApplyFlagWrites(_, _)
ApplyFlagWrites(acc, ws) ==
  IF ws = <<>> THEN acc
  ELSE ApplyFlagWrites(
         [acc EXCEPT ![Head(ws).id].defaultAccount = Head(ws).defaultAccount],
         Tail(ws))

\* the rows a set of ids names, as a sequence of flag writes
RECURSIVE FlagWrites(_, _)
FlagWrites(ids, value) ==
  IF ids = {} THEN <<>>
  ELSE LET id == CHOOSE x \in ids : TRUE
       IN <<SetFlag(id, value)>> \o FlagWrites(ids \ {id}, value)

\* lines 144-152: updateMany {userId, defaultAccount: true}: the statement
\* writes the rows that are the user's defaults in the committed table when
\* it runs (read committed); the writes stay in the transaction
SetDefaultUnset(r) ==
  /\ apc[r] = "sd_unset"
  /\ apending' = [apending EXCEPT ![r] =
       @ \o FlagWrites(DefaultsOf(areq[r].user), FALSE)]
  /\ apc' = [apc EXCEPT ![r] = "sd_set"]
  /\ UNCHANGED <<accounts, created, astarted, areq, accountCount, aresp>>
  /\ UNCHANGED <<transferOps, presence, listOps, signupOps>>

\* lines 155-162: update {id} sets the flag of the target
SetDefaultSet(r) ==
  /\ apc[r] = "sd_set"
  /\ apending' = [apending EXCEPT ![r] =
       Append(@, SetFlag(areq[r].accountId, TRUE))]
  /\ apc' = [apc EXCEPT ![r] = "sd_commit"]
  /\ UNCHANGED <<accounts, created, astarted, areq, accountCount, aresp>>
  /\ UNCHANGED <<transferOps, presence, listOps, signupOps>>

\* lines 142-165 and controller lines 121-125: the $transaction commits,
\* its writes reach the table together, and the controller answers 200
SetDefaultCommit(r) ==
  /\ apc[r] = "sd_commit"
  /\ accounts' = ApplyFlagWrites(accounts, apending[r])
  /\ AFinish(r, SetAsDefault)
  /\ UNCHANGED <<created, astarted, transferOps, presence, listOps, signupOps>>

\* createAnotherAccount, lines 140-164: the body must be empty and the
\* caller authenticated, then the controller awaits
\* createAdditionalAccount, which awaits its count
createAnotherAccount(r, user, bodyKeys) ==
  /\ apc[r] \in {"idle", "done"}
  /\ astarted < MaxAccountRequests
  /\ astarted' = astarted + 1
  /\ IF bodyKeys > 0
     THEN AFinish(r, BodyNotEmpty)
     ELSE IF user = NoUser
     THEN AFinish(r, AuthRequired)
     ELSE /\ areq' = [areq EXCEPT ![r] =
                 AccountRequest("createAnotherAccount", user, Missing, 0)]
          /\ apc' = [apc EXCEPT ![r] = "ca_count"]
          /\ aresp' = [aresp EXCEPT ![r] = NoResponse]
          /\ UNCHANGED <<accountCount, apending>>
  /\ UNCHANGED <<accounts, created, transferOps, presence, listOps, signupOps>>

\* CountAccounts as it would be with the limit compared by > instead of >=
CountAccountsOffByOne(r) ==
  /\ apc[r] = "ca_count"
  /\ LET count == Cardinality(AccountsOf(areq[r].user))
     IN IF count > MAX_ACCOUNTS_PER_USER
        THEN AFinish(r, AccountLimitReached)
        ELSE /\ accountCount' = [accountCount EXCEPT ![r] = count]
             /\ apc' = [apc EXCEPT ![r] = "ca_create"]
             /\ UNCHANGED <<areq, apending, aresp>>
  /\ UNCHANGED <<accounts, created, astarted, transferOps, presence, listOps, signupOps>>

\* createAdditionalAccount, lines 183-192: the count has resolved; at the
\* limit the repository returns null and the controller answers 403, else
\* the create is issued
CountAccounts(r) ==
  /\ apc[r] = "ca_count"
  /\ LET count == Cardinality(AccountsOf(areq[r].user))
     IN IF count >= MAX_ACCOUNTS_PER_USER
        THEN AFinish(r, AccountLimitReached)
        ELSE /\ accountCount' = [accountCount EXCEPT ![r] = count]
             /\ apc' = [apc EXCEPT ![r] = "ca_create"]
             /\ UNCHANGED <<areq, apending, aresp>>
  /\ UNCHANGED <<accounts, created, astarted, transferOps, presence, listOps, signupOps>>

NewAccount(userId, accountNumber, defaultAccount, balance) ==
  [userId |-> userId, accountNumber |-> accountNumber,
   balance |-> balance, defaultAccount |-> defaultAccount]

Extend(acc, id, row) ==
  [x \in DOMAIN acc \cup {id} |-> IF x = id THEN row ELSE acc[x]]

\* CreateAccount as it would be if the new account took the default flag
\* and the first-account balance
CreateAccountAsFirst(r) ==
  /\ apc[r] = "ca_create"
  /\ created < Len(NewAccountIds)
  /\ created' = created + 1
  /\ accounts' = Extend(accounts, NewAccountIds[created + 1],
                        NewAccount(areq[r].user,
                                   NewAccountNumbers[created + 1],
                                   TRUE, DEFAULT_FIRST_ACCOUNT_BALANCE))
  /\ AFinish(r, AccountCreated)
  /\ UNCHANGED <<astarted, transferOps, presence, listOps, signupOps>>

\* createAdditionalAccount, lines 192-202 and controller lines 174-178:
\* the create has resolved with a fresh id and a fresh account number, and
\* the controller answers 201.  (A generated number that is already taken
\* makes the create throw: AccountStoreError.)
CreateAccount(r) ==
  /\ apc[r] = "ca_create"
  /\ created < Len(NewAccountIds)
  /\ created' = created + 1
  /\ accounts' = Extend(accounts, NewAccountIds[created + 1],
                        NewAccount(areq[r].user,
                                   NewAccountNumbers[created + 1],
                                   FALSE, DEFAULT_ADDITIONAL_ACCOUNT_BALANCE))
  /\ AFinish(r, AccountCreated)
  /\ UNCHANGED <<astarted, transferOps, presence, listOps, signupOps>>

\* any call into the store can throw (the repository catch blocks rethrow);
\* an open $transaction is rolled back and the controller's catch answers
\* with its generic error
AccountStoreError(r) ==
  /\ apc[r] \in {"sd_find", "sd_unset", "sd_set", "sd_commit",
                 "ca_count", "ca_create"}
  /\ AFinish(r, IF areq[r].kind = "updateAccount"
                THEN UpdateError ELSE CreateError)
  /\ UNCHANGED <<accounts, created, astarted, transferOps, presence, listOps, signupOps>>

\* ------------------------------------------------- authController: signup
ValidationFailed == Reply(BAD_REQUEST, "Validation failed")
EmailRegistered == Reply(CONFLICT, "Email already registered")
UserRegistered ==
  Reply(CREATED, "User registered successfully. Please verify your email.")
SignupFailed ==
  Reply(INTERNAL_SERVER_ERROR, "An error occurred while creating your account")

\* the signup handler answers and forgets the request and its locals
SFinish(r, response) ==
  /\ spc' = [spc EXCEPT ![r] = "done"]
  /\ sresp' = [sresp EXCEPT ![r] = response]
  /\ sreq' = [sreq EXCEPT ![r] = NoSignupRequest]
  /\ snew' = [snew EXCEPT ![r] = NoUser]

\* lines 47-107: the body is validated (schema, email format), the email
\* is normalized, and the handler awaits findUserByEmail.  The model's
\* emails are normalized ones.
signup(r, email, valid) ==
  /\ spc[r] \in {"idle", "done"}
  /\ sstarted < MaxSignups
  /\ sstarted' = sstarted + 1
  /\ IF ~valid
     THEN SFinish(r, ValidationFailed)
     ELSE /\ sreq' = [sreq EXCEPT ![r] = SignupRequest(email, valid)]
          /\ spc' = [spc EXCEPT ![r] = "s_find"]
          /\ sresp' = [sresp EXCEPT ![r] = NoResponse]
          /\ UNCHANGED snew
  /\ UNCHANGED userRows
  /\ UNCHANGED <<accounts, accountOps, transferOps, presence, listOps>>

\* lines 107-116: findUserByEmail has resolved; a row with the email is
\* answered 409, else the handler awaits hashPassword
SignupFindUser(r) ==
  /\ spc[r] = "s_find"
  /\ IF \E row \in userRows : row.email = sreq[r].email
     THEN SFinish(r, EmailRegistered)
     ELSE /\ spc' = [spc EXCEPT ![r] = "s_hash"]
          /\ UNCHANGED <<sreq, snew, sresp>>
  /\ UNCHANGED <<userRows, sstarted>>
  /\ UNCHANGED <<accounts, accountOps, transferOps, presence, listOps>>

\* lines 116-130: the hash is there; the handler awaits prisma.user.create
SignupHashed(r) ==
  /\ spc[r] = "s_hash"
  /\ spc' = [spc EXCEPT ![r] = "s_user"]
  /\ UNCHANGED <<userRows, sstarted, sreq, snew, sresp>>
  /\ UNCHANGED <<accounts, accountOps, transferOps, presence, listOps>>

\* lines 119-134: user.create has inserted the row (autocommit; the email
\* is a unique key, findUnique reads by it); the handler awaits
\* prisma.account.create
SignupCreateUser(r) ==
  /\ spc[r] = "s_user"
  /\ \A row \in userRows : row.email # sreq[r].email
  /\ Cardinality(userRows) - Cardinality(FirstUsers) < Len(NewUserIds)
  /\ LET id == NewUserIds[Cardinality(userRows) - Cardinality(FirstUsers) + 1]
     IN /\ userRows' = userRows \cup {UserRow(id, sreq[r].email)}
        /\ snew' = [snew EXCEPT ![r] = id]
  /\ spc' = [spc EXCEPT ![r] = "s_account"]
  /\ UNCHANGED <<sstarted, sreq, sresp>>
  /\ UNCHANGED <<accounts, accountOps, transferOps, presence, listOps>>

\* lines 132-159: account.create has inserted the default account of the
\* new user (autocommit); the handler awaits sendVerificationEmail
SignupCreateAccount(r) ==
  /\ spc[r] = "s_account"
  /\ created < Len(NewAccountIds)
  /\ accounts' = Extend(accounts, NewAccountIds[created + 1],
                        NewAccount(snew[r], NewAccountNumbers[created + 1],
                                   TRUE, DEFAULT_FIRST_ACCOUNT_BALANCE))
  /\ created' = created + 1
  /\ spc' = [spc EXCEPT ![r] = "s_mail"]
  /\ UNCHANGED <<userRows, sstarted, sreq, snew, sresp>>
  /\ UNCHANGED <<astarted, apc, areq, accountCount, apending, aresp>>
  /\ UNCHANGED <<transferOps, presence, listOps>>

\* lines 159-174: the mail is sent and the handler answers 201
SignupSendMail(r) ==
  /\ spc[r] = "s_mail"
  /\ SFinish(r, UserRegistered)
  /\ UNCHANGED <<userRows, sstarted>>
  /\ UNCHANGED <<accounts, accountOps, transferOps, presence, listOps>>

\* lines 175-181: an awaited call has thrown (for user.create this
\* includes the refusal of an email that is taken by now); the catch
\* block answers 500 and undoes nothing
SignupError(r) ==
  /\ spc[r] \in {"s_find", "s_hash", "s_user", "s_account", "s_mail"}
  /\ SFinish(r, SignupFailed)
  /\ UNCHANGED <<userRows, sstarted>>
  /\ UNCHANGED <<accounts, accountOps, transferOps, presence, listOps>>

Next ==
  \/ \E r \in Handlers, request \in Requests : Receive(r, request)
  \/ \E r \in Handlers : ValidateSource(r)
  \/ \E r \in Handlers : CheckFunds(r)
  \/ \E r \in Handlers : FindRecipient(r)
  \/ \E r \in Handlers : ExecDebit(r)
  \/ \E r \in Handlers : ExecCredit(r)
  \/ \E r \in Handlers, now \in Now, suffix \in SameSuffix :
       ExecCreate(r, now, suffix)
  \/ \E r \in Handlers : Commit(r)
  \/ \E r \in Handlers : Respond(r)
  \/ \E r \in Handlers : StoreError(r)

Spec == Init /\ [][Next]_vars

\* the account requests: set as default and create another account
RequestUsers == Users \cup {NoUser}
\* the ids a set-as-default request can name: the first accounts, the
\* first two additional accounts (once they exist) and an id of no account
TargetAccountIds == RequestAccountIds \cup {"a3", "a4"}
NextAccounts ==
  \/ \E r \in Handlers, u \in RequestUsers, id \in TargetAccountIds :
        updateAccount(r, u, id)
  \/ \E r \in Handlers : SetDefaultFind(r)
  \/ \E r \in Handlers : SetDefaultUnset(r)
  \/ \E r \in Handlers : SetDefaultSet(r)
  \/ \E r \in Handlers : SetDefaultCommit(r)
  \/ \E r \in Handlers, u \in RequestUsers, bodyKeys \in {0, 1} :
        createAnotherAccount(r, u, bodyKeys)
  \/ \E r \in Handlers : CountAccounts(r)
  \/ \E r \in Handlers : CreateAccount(r)
  \/ \E r \in Handlers : AccountStoreError(r)

SpecAccounts == Init /\ [][NextAccounts]_vars

\* transfers of u1 to u2 that pass every check, with sockets of both users
\* connecting and disconnecting
NotifyRequests == {Request("u1", "a1", "n2", Num(500))}
NotifySockets == {"s1", "s2"}
NextNotify ==
  \/ \E s \in NotifySockets, u \in Users : Connect(s, u)
  \/ \E s \in NotifySockets : Disconnect(s)
  \/ \E r \in Handlers, request \in NotifyRequests : Receive(r, request)
  \/ \E r \in Handlers : ValidateSource(r)
  \/ \E r \in Handlers : CheckFunds(r)
  \/ \E r \in Handlers : FindRecipient(r)
  \/ \E r \in Handlers : ExecDebit(r)
  \/ \E r \in Handlers : ExecCredit(r)
  \/ \E r \in Handlers, now \in Now, suffix \in SameSuffix :
       ExecCreate(r, now, suffix)
  \/ \E r \in Handlers : Commit(r)
  \/ \E r \in Handlers : Respond(r)
  \/ \E r \in Handlers : StoreError(r)

SpecNotify == Init /\ [][NextNotify]_vars

\* connection attempts with every kind of token on three sockets,
\* disconnects, and changes of the users' first names
NextPresence ==
  \/ \E s \in Sockets, token \in Tokens : Authenticate(s, token)
  \/ \E s \in Sockets : AuthenticateLookup(s)
  \/ \E s \in Sockets : AuthenticateError(s)
  \/ \E s \in Sockets : Disconnect(s)
  \/ \E id \in Users, firstName \in FirstNames :
        updateUserProfile(id, firstName)

SpecPresence == Init /\ [][NextPresence]_vars

\* transfers of u1 to u2, each with either reference suffix
NextReferences ==
  \/ \E r \in Handlers, request \in NotifyRequests :
        Receive(r, request)
  \/ \E r \in Handlers : ValidateSource(r)
  \/ \E r \in Handlers : CheckFunds(r)
  \/ \E r \in Handlers : FindRecipient(r)
  \/ \E r \in Handlers : ExecDebit(r)
  \/ \E r \in Handlers : ExecCredit(r)
  \/ \E r \in Handlers, now \in Now, suffix \in RandomSuffixes :
        ExecCreate(r, now, suffix)
  \/ \E r \in Handlers : Commit(r)
  \/ \E r \in Handlers : Respond(r)
  \/ \E r \in Handlers : StoreError(r)

SpecReferences == Init /\ [][NextReferences]_vars

\* every operation next to the ledger: transfers of u1 to u2 handled one
\* after the other, u1's account requests and listings on a second
\* handler, and u2's socket
TransferHandlers == {"h1"}
OtherHandlers == {"h2"}
LedgerSockets == {"s1"}
NextLedger ==
  \/ \E r \in TransferHandlers, request \in NotifyRequests :
        Receive(r, request)
  \/ \E r \in TransferHandlers : ValidateSource(r)
  \/ \E r \in TransferHandlers : CheckFunds(r)
  \/ \E r \in TransferHandlers : FindRecipient(r)
  \/ \E r \in TransferHandlers : ExecDebit(r)
  \/ \E r \in TransferHandlers : ExecCredit(r)
  \/ \E r \in TransferHandlers, now \in Now, suffix \in SameSuffix :
        ExecCreate(r, now, suffix)
  \/ \E r \in TransferHandlers : Commit(r)
  \/ \E r \in TransferHandlers : Respond(r)
  \/ \E r \in TransferHandlers : StoreError(r)
  \/ \E r \in OtherHandlers : updateAccount(r, "u1", "a3")
  \/ \E r \in OtherHandlers : SetDefaultFind(r)
  \/ \E r \in OtherHandlers : SetDefaultUnset(r)
  \/ \E r \in OtherHandlers : SetDefaultSet(r)
  \/ \E r \in OtherHandlers : SetDefaultCommit(r)
  \/ \E r \in OtherHandlers : createAnotherAccount(r, "u1", 0)
  \/ \E r \in OtherHandlers : CountAccounts(r)
  \/ \E r \in OtherHandlers : CreateAccount(r)
  \/ \E r \in OtherHandlers : AccountStoreError(r)
  \/ \E r \in OtherHandlers : getTransactions(r, "u1", "a1")
  \/ \E r \in OtherHandlers : ListFindAccount(r)
  \/ \E r \in OtherHandlers : ListTransactions(r)
  \/ \E r \in OtherHandlers : ListStoreError(r)
  \/ \E s \in LedgerSockets : Connect(s, "u2")
  \/ \E s \in LedgerSockets : Disconnect(s)

SpecLedger == Init /\ [][NextLedger]_vars

\* the store a listing is run against: u1 has opened a second account a3,
\* and a1 and a2 have paid each other 10 in turn, n times; the last two
\* transfers may have committed in the inverse order of their creation
LedgerRecord(i) ==
  [id |-> i, reference |-> transactionReference(i, 0),
   fromAccountId |-> IF i % 2 = 1 THEN "a1" ELSE "a2",
   toAccountId |-> IF i % 2 = 1 THEN "a2" ELSE "a1",
   amount |-> 10]

SwapLast(seq) ==
  IF Len(seq) < 2 THEN seq
  ELSE [seq EXCEPT ![Len(seq) - 1] = seq[Len(seq)],
                   ![Len(seq)] = seq[Len(seq) - 1]]

InitListing ==
  /\ \E n \in 0..MaxLedger, inverted \in BOOLEAN :
       /\ transactions = IF inverted
                         THEN SwapLast([i \in 1..n |-> LedgerRecord(i)])
                         ELSE [i \in 1..n |-> LedgerRecord(i)]
       /\ nextId = n
       /\ accounts = [id \in {"a1", "a2", "a3"} |->
            [userId |-> IF id = "a2" THEN "u2" ELSE "u1",
             accountNumber |-> IF id = "a1" THEN "n1"
                               ELSE IF id = "a2" THEN "n2" ELSE "n3",
             balance |-> IF id = "a1"
                         THEN DEFAULT_FIRST_ACCOUNT_BALANCE - 10 * (n % 2)
                         ELSE IF id = "a2"
                         THEN DEFAULT_FIRST_ACCOUNT_BALANCE + 10 * (n % 2)
                         ELSE DEFAULT_ADDITIONAL_ACCOUNT_BALANCE,
             defaultAccount |-> id # "a3"]]
  /\ created = 1
  /\ InitHandlers

\* listings asked by either user, or by nobody, for every account, for an
\* id of no account, or without an id
ListedAccountIds == {"a1", "a2", "a3", "ax", Missing}
NextListing ==
  \/ \E r \in Handlers, u \in RequestUsers, id \in ListedAccountIds :
        getTransactions(r, u, id)
  \/ \E r \in Handlers : ListFindAccount(r)
  \/ \E r \in Handlers : ListTransactions(r)
  \/ \E r \in Handlers : ListStoreError(r)

SpecListing == InitListing /\ [][NextListing]_vars

\* signups with the email of u1 and with two new emails, with bodies that
\* pass the validation and bodies that do not
NextSignup ==
  \/ \E r \in Handlers, email \in Emails, valid \in BOOLEAN :
        signup(r, email, valid)
  \/ \E r \in Handlers : SignupFindUser(r)
  \/ \E r \in Handlers : SignupHashed(r)
  \/ \E r \in Handlers : SignupCreateUser(r)
  \/ \E r \in Handlers : SignupCreateAccount(r)
  \/ \E r \in Handlers : SignupSendMail(r)
  \/ \E r \in Handlers : SignupError(r)

SpecSignup == Init /\ [][NextSignup]_vars

\* transfers in both directions, 500 from u1 to u2 and "1000" from u2 to
\* u1, on both handlers, while u1 opens further accounts
BalanceRequests ==
  {Request("u1", "a1", "n2", Num(500)), Request("u2", "a2", "n1", Str("1000"))}
NextBalances ==
  \/ \E r \in Handlers, request \in BalanceRequests : Receive(r, request)
  \/ \E r \in Handlers : ValidateSource(r)
  \/ \E r \in Handlers : CheckFunds(r)
  \/ \E r \in Handlers : FindRecipient(r)
  \/ \E r \in Handlers : ExecDebit(r)
  \/ \E r \in Handlers : ExecCredit(r)
  \/ \E r \in Handlers, now \in Now, suffix \in SameSuffix :
        ExecCreate(r, now, suffix)
  \/ \E r \in Handlers : Commit(r)
  \/ \E r \in Handlers : Respond(r)
  \/ \E r \in Handlers : StoreError(r)
  \/ \E r \in TransferHandlers : createAnotherAccount(r, "u1", 0)
  \/ \E r \in TransferHandlers : CountAccounts(r)
  \/ \E r \in TransferHandlers : CreateAccount(r)
  \/ \E r \in TransferHandlers : AccountStoreError(r)

SpecBalances == Init /\ [][NextBalances]_vars

\* one handler serving every kind of transfer request, one after the
\* other.  Every awaited store call settles and the event loop runs the
\* continuation: a handler that can take a step takes one.
TransferStep(r) ==
  \/ ValidateSource(r)
  \/ CheckFunds(r)
  \/ FindRecipient(r)
  \/ ExecDebit(r)
  \/ ExecCredit(r)
  \/ \E now \in Now, suffix \in SameSuffix : ExecCreate(r, now, suffix)
  \/ Commit(r)
  \/ Respond(r)
  \/ StoreError(r)

NextTermination ==
  \/ \E r \in TransferHandlers, request \in Requests : Receive(r, request)
  \/ \E r \in TransferHandlers : TransferStep(r)

SpecTermination ==
  /\ Init
  /\ [][NextTermination]_vars
  /\ \A r \in TransferHandlers : WF_vars(TransferStep(r))

TypeOK ==
  /\ \A id \in DOMAIN accounts : accounts[id].balance \in Int
  /\ started \in 0..MaxRequests
  /\ \A r \in Handlers : reads[r] \in 0..4 /\ writes[r] \in 0..3

\* ------------------------------------------------------------ vocabulary
InTransaction(r) == pc[r] \in {"tx_debit", "tx_credit", "tx_create", "tx_commit"}

\* the handler answers in this step
Answers(r) == pc[r] # "done" /\ pc'[r] = "done"

CallerFailures ==
  {MissingFields, SourceAccountNotFound, SameAccountTransfer,
   AmountNotPositive, InvalidAmountFormat, InsufficientFunds,
   RecipientNotFound}

\* what a step does to the tables
Debited == \E id \in DOMAIN accounts : accounts'[id].balance < accounts[id].balance
Credited == \E id \in DOMAIN accounts : accounts'[id].balance > accounts[id].balance
Recorded == Len(transactions') > Len(transactions)

\* the preconditions of section 4.1, each on its own, for a request q
ViolatesAmount(q) ==
  ~DecimalParses(q.amount) \/ isNegative(q.amount) \/ isZero(q.amount)
ViolatesOwner(q) ==
  ~(q.accountId \in DOMAIN accounts /\ accounts[q.accountId].userId = q.user)
ViolatesDistinct(q) ==
  /\ q.accountId \in DOMAIN accounts
  /\ accounts[q.accountId].accountNumber = q.recipientAccountNumber
ViolatesRecipient(q) ==
  ~\E id \in DOMAIN accounts :
      accounts[id].accountNumber = q.recipientAccountNumber
ViolatesFunds(q) ==
  /\ q.accountId \in DOMAIN accounts
  /\ DecimalParses(q.amount)
  /\ lessThan(accounts[q.accountId].balance, q.amount)

AmountFailure(q) ==
  IF DecimalParses(q.amount) THEN AmountNotPositive ELSE InvalidAmountFormat

\* ------------------------------------------------------------------ C1
\* C1: no account's balance is ever below zero, whatever transfers ran and
\* however their balance checks and commits interleaved.
NoNegativeBalance ==
  \A id \in DOMAIN accounts : accounts[id].balance >= 0

\* ------------------------------------------------------------------ C2
\* C2: of two concurrent transfers from one account whose amounts each fit
\* the balance B but together exceed it, at most one commits.  Both handlers
\* standing at "notify" have committed; B is the balance before the two
\* debits.
NoOverdraftUnderConcurrency ==
  \A r1, r2 \in Handlers :
    (/\ r1 # r2
     /\ pc[r1] = "notify" /\ pc[r2] = "notify"
     /\ fromAccount[r1] = fromAccount[r2])
    => LET B == accounts[fromAccount[r1]].balance
                  + amountDecimal[r1] + amountDecimal[r2]
       IN ~(/\ amountDecimal[r1] <= B
            /\ amountDecimal[r2] <= B
            /\ amountDecimal[r1] + amountDecimal[r2] > B)

\* ------------------------------------------------------------------ C3
\* C3: debit, credit and record insertion are one atomic unit: every step
\* that changes the tables applies all three effects together, no step
\* applies only some of them.
AtomicCommit ==
  [][(Debited <=> Credited) /\ (Credited <=> Recorded)]_vars

\* a transfer has committed while the other handler's transaction holds
\* writes that are not visible yet
AtomicCommitWitness ==
  \E r1, r2 \in Handlers :
    /\ pc[r1] = "notify"
    /\ Len(transactions) = 1
    /\ Len(pending[r2]) = 2

\* ------------------------------------------------------------------ C4
\* C4: a committed transfer of x from F to another account T takes exactly
\* x from F, adds exactly x to T, leaves every other balance alone (so the
\* sum over F and T is kept) and appends exactly one record, of amount x.
Conservation ==
  [][Recorded =>
       \E r \in Handlers :
         LET x == DecimalOf(req[r].amount)
             F == fromAccount[r]
             T == toAccount[r]
         IN /\ pc[r] = "tx_commit" /\ pc'[r] = "notify"
            /\ F # T
            /\ x > 0
            /\ accounts'[F].balance = accounts[F].balance - x
            /\ accounts'[T].balance = accounts[T].balance + x
            /\ accounts'[F].balance + accounts'[T].balance
                 = accounts[F].balance + accounts[T].balance
            /\ \A id \in DOMAIN accounts \ {F, T} :
                 accounts'[id] = accounts[id]
            /\ Len(transactions') = Len(transactions) + 1
            /\ transactions'[Len(transactions')].amount = x
            /\ transactions'[Len(transactions')].fromAccountId = F
            /\ transactions'[Len(transactions')].toAccountId = T
            /\ SubSeq(transactions', 1, Len(transactions)) = transactions]_vars

\* 500 has moved from a1 to a2 and one record of 500 says so
ConservationWitness ==
  /\ Len(transactions) = 1
  /\ transactions[1].amount = 500
  /\ accounts["a1"].balance = DEFAULT_FIRST_ACCOUNT_BALANCE - 500
  /\ accounts["a2"].balance = DEFAULT_FIRST_ACCOUNT_BALANCE + 500

\* ------------------------------------------------------------------ C5
\* C5: a failure after the commit of a transfer has begun leaves the tables
\* as they were (none of the transfer's buffered writes is applied) and the
\* caller gets the generic 500 answer.
CommitFailureRollsBack ==
  [][\A r \in Handlers :
       (InTransaction(r) /\ Answers(r))
       => /\ accounts' = accounts
          /\ transactions' = transactions
          /\ resp'[r] = InternalError
          /\ resp'[r].status = INTERNAL_SERVER_ERROR
          /\ pending'[r] = <<>>]_vars

\* a transfer failed after its debit and credit were issued, and both
\* tables are as they were before it
CommitFailureWitness ==
  \E r \in Handlers :
    /\ resp[r] = InternalError
    /\ writes[r] >= 2
    /\ transactions = <<>>
    /\ \A id \in DOMAIN accounts :
         accounts[id].balance = DEFAULT_FIRST_ACCOUNT_BALANCE

\* ------------------------------------------------------------------ C6
\* C6: a request that ends in a caller-facing failure is rejected before
\* any mutating step: it has issued no write and opened no transaction, and
\* the step that rejects it changes no balance and no record.
RejectedBeforeMutation ==
  [][\A r \in Handlers :
       (Answers(r) /\ resp'[r] \in CallerFailures)
       => /\ accounts' = accounts
          /\ transactions' = transactions
          /\ writes[r] = 0 /\ writes'[r] = 0
          /\ pending[r] = <<>>
          /\ ~InTransaction(r)]_vars

\* one transfer has committed and emptied a1, the next one from a1 was
\* rejected for insufficient funds
RejectedBeforeMutationWitness ==
  \E r \in Handlers :
    /\ resp[r] = InsufficientFunds
    /\ writes[r] = 0
    /\ Len(transactions) = 1

\* ------------------------------------------------------------------ C7
\* the verdict a lookup step must give when the preconditions are taken in
\* the order amount, owner, distinct accounts, recipient, funds
SpecOrderVerdict(q) ==
  IF ViolatesAmount(q) THEN AmountFailure(q)
  ELSE IF ViolatesOwner(q) THEN SourceAccountNotFound
  ELSE IF ViolatesDistinct(q) THEN SameAccountTransfer
  ELSE IF ViolatesRecipient(q) THEN RecipientNotFound
  ELSE IF ViolatesFunds(q) THEN InsufficientFunds
  ELSE NoResponse

\* C7 as stated: a request that is rejected for a precondition is rejected
\* for the first one it violates in the order amount, owner, distinct
\* accounts, recipient, funds.
PreconditionsInSpecOrder ==
  [][\A r \in Handlers :
       (/\ Answers(r)
        /\ pc[r] \in {"validate_source", "check_funds", "find_recipient"}
        /\ resp'[r] \in CallerFailures)
       => resp'[r] = SpecOrderVerdict(req[r])]_vars

\* the verdict of a lookup step when the preconditions are taken in the
\* order owner, distinct accounts, amount, funds, recipient; each lookup
\* step decides the preconditions that are checked on its result, and
\* NoResponse means that the request moves on
CodeOrderVerdict(q, stage) ==
  IF ViolatesOwner(q) THEN SourceAccountNotFound
  ELSE IF ViolatesDistinct(q) THEN SameAccountTransfer
  ELSE IF ViolatesAmount(q) THEN AmountFailure(q)
  ELSE IF stage = "validate_source" THEN NoResponse
  ELSE IF stage = "check_funds"
  THEN IF ViolatesFunds(q) THEN InsufficientFunds ELSE NoResponse
  ELSE IF ViolatesRecipient(q) THEN RecipientNotFound
  ELSE NoResponse

\* C7 as amended: the preconditions are checked in the order owner,
\* distinct accounts, amount, funds, recipient; a request is rejected for
\* the first one it violates in this order and moves on when it violates
\* none of those checked so far.
PreconditionsInCodeOrder ==
  [][\A r \in Handlers :
       (/\ pc[r] \in {"validate_source", "check_funds", "find_recipient"}
        /\ pc'[r] # pc[r]
        /\ resp'[r] # InternalError)
       => LET verdict == CodeOrderVerdict(req[r], pc[r])
          IN IF verdict = NoResponse
             THEN pc'[r] # "done"
             ELSE pc'[r] = "done" /\ resp'[r] = verdict]_vars

\* a request that names no existing recipient has passed the funds check:
\* funds are checked before the recipient
PreconditionsInCodeOrderWitness ==
  \E r \in Handlers :
    /\ pc[r] = "find_recipient"
    /\ ViolatesRecipient(req[r])
    /\ reads[r] = 2

\* ------------------------------------------------------------------ C8
\* C8: every record is created by a request whose verified caller owns the
\* source account, and a request that names a source account of another
\* user, or no account, is answered 404 SourceAccountNotFound and changes
\* nothing.
OnlyOwnerDebits ==
  [][/\ \A r \in Handlers :
          (pc[r] = "tx_commit" /\ pc'[r] = "notify")
          => /\ req[r].user \in Users
             /\ accounts[fromAccount[r]].userId = req[r].user
             /\ transactions'[Len(transactions')].fromAccountId
                  = fromAccount[r]
     /\ Recorded => \E r \in Handlers :
                      pc[r] = "tx_commit" /\ pc'[r] = "notify"
     /\ \A r \in Handlers :
          (/\ pc[r] = "validate_source" /\ pc'[r] # pc[r]
           /\ ViolatesOwner(req[r])
           /\ resp'[r] # InternalError)
          => /\ pc'[r] = "done"
             /\ resp'[r] = SourceAccountNotFound
             /\ resp'[r].status = NOT_FOUND
             /\ accounts' = accounts
             /\ transactions' = transactions]_vars

\* u1 has moved money out of its own account a1, and a request for a source
\* the caller does not own was answered 404
OnlyOwnerDebitsWitness ==
  /\ Len(transactions) = 1
  /\ accounts[transactions[1].fromAccountId].userId = "u1"
  /\ \E r \in Handlers : resp[r] = SourceAccountNotFound /\ writes[r] = 0

\* ------------------------------------------------------------------ C9
\* C9: a transfer whose source account, resolved for the caller, carries
\* the recipient's account number is answered 400 SameAccountTransfer and
\* never reaches the commit; so every record has two different accounts.
SameAccountRejected ==
  /\ [](\A i \in 1..Len(transactions) :
          transactions[i].fromAccountId # transactions[i].toAccountId)
  /\ [][\A r \in Handlers :
          (/\ pc[r] = "validate_source" /\ pc'[r] # pc[r]
           /\ ~ViolatesOwner(req[r])
           /\ ViolatesDistinct(req[r])
           /\ resp'[r] # InternalError)
          => /\ pc'[r] = "done"
             /\ resp'[r] = SameAccountTransfer
             /\ resp'[r].status = BAD_REQUEST
             /\ pending'[r] = <<>>
             /\ accounts' = accounts
             /\ transactions' = transactions]_vars

\* a same-account request was rejected without a write while another
\* transfer is recorded
SameAccountRejectedWitness ==
  /\ \E r \in Handlers : resp[r] = SameAccountTransfer /\ writes[r] = 0
  /\ Len(transactions) = 1

\* ----------------------------------------------------------------- C10
\* C10 as stated: the same-account rejection comes before any store access.
SameAccountBeforeAnyStoreAccess ==
  \A r \in Handlers :
    resp[r] = SameAccountTransfer => reads[r] = 0 /\ writes[r] = 0

\* C10 as amended: the same-account rejection comes after exactly one store
\* access, the read of the caller's source account that yields its account
\* number, and before any write.
SameAccountAfterSourceRead ==
  \A r \in Handlers :
    resp[r] = SameAccountTransfer => reads[r] = 1 /\ writes[r] = 0

\* a same-account request has been rejected with one read made
SameAccountAfterSourceReadWitness ==
  \E r \in Handlers :
    /\ resp[r] = SameAccountTransfer
    /\ reads[r] = 1
    /\ pc[r] = "done"

\* ----------------------------------------------------------------- C11
\* C11: a transfer that satisfies every other precondition is answered
\* 400 InsufficientFunds exactly when the balance the funds check reads is
\* strictly below the amount, and that answer changes no balance and no
\* record; an amount equal to the balance passes the check, and when its
\* debit is applied to a balance equal to the amount the source is left at
\* exactly zero.
InsufficientFundsBoundary ==
  [][\A r \in Handlers :
       /\ (/\ pc[r] = "check_funds" /\ pc'[r] # pc[r]
           /\ ~IsNaN(req[r].amount)
           /\ ~ViolatesRecipient(req[r])
           /\ resp'[r] # InternalError)
          => LET balance == accounts[req[r].accountId].balance
                 x == amountDecimal[r]
             IN /\ (resp'[r] = InsufficientFunds) <=> (balance < x)
                /\ (balance < x)
                   => /\ pc'[r] = "done"
                      /\ resp'[r].status = BAD_REQUEST
                      /\ accounts' = accounts
                      /\ transactions' = transactions
                /\ (balance >= x)
                   => /\ pc'[r] = "find_recipient"
                      /\ fromAccount'[r] = req[r].accountId
       /\ (/\ pc[r] = "tx_commit" /\ pc'[r] = "notify"
           /\ accounts[fromAccount[r]].balance = amountDecimal[r])
          => accounts'[fromAccount[r]].balance = 0]_vars

\* a transfer of the whole balance of a1 has committed and left a1 at zero,
\* and the next transfer from a1 was turned away for insufficient funds
InsufficientFundsBoundaryWitness ==
  \E r1, r2 \in Handlers :
    /\ pc[r1] = "notify"
    /\ amountDecimal[r1] = DEFAULT_FIRST_ACCOUNT_BALANCE
    /\ accounts[fromAccount[r1]].balance = 0
    /\ resp[r2] = InsufficientFunds

\* ----------------------------------------------------------------- C12
\* an amount that is not a strictly positive decimal: it does not parse,
\* it is not a number, or it is zero or negative
NotStrictlyPositive(v) == ~DecimalParses(v) \/ IsNaN(v) \/ DecimalOf(v) <= 0

\* C12: a transfer whose amount is not a strictly positive decimal (and
\* whose source resolves for the caller and differs from the recipient, so
\* that the amount is looked at) is answered 400 InvalidAmount and never
\* reaches the commit; every stored record has a strictly positive amount.
InvalidAmountRejected ==
  /\ [](\A i \in 1..Len(transactions) : transactions[i].amount > 0)
  /\ [](\A r \in Handlers :
          InTransaction(r) => ~NotStrictlyPositive(req[r].amount))
  /\ [][\A r \in Handlers :
          (/\ pc[r] = "validate_source" /\ pc'[r] # pc[r]
           /\ ~ViolatesOwner(req[r])
           /\ ~ViolatesDistinct(req[r])
           /\ NotStrictlyPositive(req[r].amount)
           /\ resp'[r] # InternalError)
          => /\ pc'[r] = "done"
             /\ resp'[r] \in {InvalidAmountFormat, AmountNotPositive}
             /\ resp'[r].status = BAD_REQUEST]_vars

\* --------------------------------------------- vocabulary: accounts
\* the account handler answers in this step
AAnswers(r) == apc[r] # "done" /\ apc'[r] = "done"

\* the table after the step
AccountsOfAfter(userId) ==
  {id \in DOMAIN accounts' : accounts'[id].userId = userId}
DefaultsOfAfter(userId) ==
  {id \in AccountsOfAfter(userId) : accounts'[id].defaultAccount}

\* the step adds no row and leaves every row as it was
TableUnchanged == accounts' = accounts
\* the step leaves every row that existed as it was
ExistingRowsKept == \A id \in DOMAIN accounts : accounts'[id] = accounts[id]

\* ----------------------------------------------------------------- C13
\* C13: in every reachable state (both users are onboarded from the start)
\* each user has exactly one account with the default flag set, whatever
\* set-as-default and create-another-account requests have run.
ExactlyOneDefault ==
  \A u \in Users : Cardinality(DefaultsOf(u)) = 1

\* ----------------------------------------------------------------- C14
\* C14: set-as-default requests of one user are serialized: whenever one of
\* them commits, however its unset and set steps interleaved with those of
\* another, the user is left with exactly one default account, not with
\* none and not with two.
SetDefaultSerialized ==
  [][\A r \in Handlers :
       (apc[r] = "sd_commit" /\ aresp'[r] = SetAsDefault)
       => Cardinality(DefaultsOfAfter(areq[r].user)) = 1]_vars

\* ----------------------------------------------------------------- C15
\* C15: a set-as-default request whose target does not exist or belongs to
\* another user is answered 404 AccountNotFound at the lookup, and that
\* leaves every row, so every default flag, as it was.
SetDefaultUnownedRejected ==
  [][\A r \in Handlers :
       /\ (/\ apc[r] = "sd_find" /\ apc'[r] # apc[r]
           /\ ~(/\ areq[r].accountId \in DOMAIN accounts
                /\ accounts[areq[r].accountId].userId = areq[r].user)
           /\ aresp'[r] # UpdateError)
          => /\ apc'[r] = "done"
             /\ aresp'[r] = AccountNotFound
             /\ aresp'[r].status = NOT_FOUND
             /\ apending'[r] = <<>>
             /\ TableUnchanged
       /\ (AAnswers(r) /\ aresp'[r] = AccountNotFound)
          => apc[r] = "sd_find" /\ TableUnchanged]_vars

\* u1 has a second account, a set-as-default request was answered 404 and
\* a1 is still the only default of u1, a2 the only default of u2
SetDefaultUnownedRejectedWitness ==
  /\ \E r \in Handlers : aresp[r] = AccountNotFound /\ apc[r] = "done"
  /\ Cardinality(AccountsOf("u1")) = 2
  /\ DefaultsOf("u1") = {"a1"}
  /\ DefaultsOf("u2") = {"a2"}

\* ----------------------------------------------------------------- C16
\* C16: when the count a create-another-account request reads is 3 or
\* more, the request is answered 403 and no row is created; when it is
\* below 3 the create is issued, and a create that resolves adds exactly
\* one row, owned by the caller.
LimitSignal ==
  [][\A r \in Handlers :
       /\ (/\ apc[r] = "ca_count" /\ apc'[r] # apc[r]
           /\ aresp'[r] # CreateError)
          => IF Cardinality(AccountsOf(areq[r].user)) >= MAX_ACCOUNTS_PER_USER
             THEN /\ apc'[r] = "done"
                  /\ aresp'[r] = AccountLimitReached
                  /\ aresp'[r].status = FORBIDDEN
                  /\ TableUnchanged
             ELSE /\ apc'[r] = "ca_create"
                  /\ TableUnchanged
       /\ (AAnswers(r) /\ aresp'[r] = AccountLimitReached)
          => apc[r] = "ca_count" /\ TableUnchanged
       /\ (AAnswers(r) /\ aresp'[r] = AccountCreated)
          => /\ apc[r] = "ca_create"
             /\ aresp'[r].status = CREATED
             /\ Cardinality(DOMAIN accounts') = Cardinality(DOMAIN accounts) + 1
             /\ Cardinality(AccountsOfAfter(areq[r].user))
                  = Cardinality(AccountsOf(areq[r].user)) + 1
             /\ DOMAIN accounts \subseteq DOMAIN accounts']_vars

\* u1 has three accounts and a further request of u1 was answered 403
LimitSignalWitness ==
  /\ Cardinality(AccountsOf("u1")) = MAX_ACCOUNTS_PER_USER
  /\ \E r \in Handlers : aresp[r] = AccountLimitReached /\ apc[r] = "done"

\* ----------------------------------------------------------------- C17
\* C17: no user ever owns more than 3 accounts, also when several
\* create-another-account requests of one user interleave their count and
\* create steps.
AccountLimit ==
  \A u \in Users : Cardinality(AccountsOf(u)) <= MAX_ACCOUNTS_PER_USER

\* ----------------------------------------------------------------- C18
\* C18: the account a create-another-account request creates has the
\* default flag false and the balance 500, and the step changes neither
\* the balance nor the default flag (nor anything else) of an existing
\* account.
NewAccountShape ==
  [][\A r \in Handlers :
       (apc[r] = "ca_create" /\ aresp'[r] = AccountCreated)
       => /\ \A id \in DOMAIN accounts' \ DOMAIN accounts :
               /\ accounts'[id].defaultAccount = FALSE
               /\ accounts'[id].balance = DEFAULT_ADDITIONAL_ACCOUNT_BALANCE
               /\ accounts'[id].userId = areq[r].user
          /\ DOMAIN accounts' # DOMAIN accounts
          /\ ExistingRowsKept]_vars

\* u1 has made its second account the default and then created a third:
\* the new row is not a default and holds 500, the old rows are as before
NewAccountShapeWitness ==
  /\ "a3" \in DOMAIN accounts /\ "a4" \in DOMAIN accounts
  /\ accounts["a3"].defaultAccount /\ ~accounts["a1"].defaultAccount
  /\ accounts["a3"].userId = "u1" /\ accounts["a4"].userId = "u1"
  /\ ~accounts["a4"].defaultAccount
  /\ accounts["a4"].balance = DEFAULT_ADDITIONAL_ACCOUNT_BALANCE
  /\ accounts["a1"].balance = DEFAULT_FIRST_ACCOUNT_BALANCE

\* ----------------------------------------------------------------- C19
\* C19: once the commit has succeeded the caller gets 201 with "Transfer
\* completed successfully", whatever the notifier does (pushes, finds
\* nobody in the registry, or has a push throw), and the notify step leaves
\* the committed balances and records as they are.
NotificationNeverFailsTransfer ==
  [][\A r \in Handlers :
       (pc[r] = "notify" /\ pc'[r] # pc[r])
       => /\ pc'[r] = "done"
          /\ resp'[r] = TransferCompleted
          /\ resp'[r].status = CREATED
          /\ accounts' = accounts
          /\ transactions' = transactions]_vars

\* a transfer has been answered 201 although a push of its notification
\* threw, and the 500 it moved is where the commit put it
NotificationNeverFailsTransferWitness ==
  /\ \E r \in Handlers : resp[r] = TransferCompleted
  /\ Len(transactions) = 1
  /\ Len(emitted) = 1 /\ emitted[1].threw
  /\ accounts["a1"].balance = DEFAULT_FIRST_ACCOUNT_BALANCE - 500
  /\ accounts["a2"].balance = DEFAULT_FIRST_ACCOUNT_BALANCE + 500

\* ----------------------------------------------------------------- C20
\* C20: when the recipient has no registry entry at notify time, the
\* transfer is still answered 201, no "money-transfer" push is made (the
\* only push there can be is the sender's "money-sent"), and no error
\* reaches the caller.
AbsentRecipientNoDelivery ==
  [][\A r \in Handlers :
       (/\ pc[r] = "notify" /\ pc'[r] # pc[r]
        /\ connectedUsers[accounts[toAccount[r]].userId] = NoSocket)
       => /\ resp'[r] = TransferCompleted
          /\ resp'[r].status = CREATED
          /\ \A i \in (Len(emitted) + 1)..Len(emitted') :
               /\ emitted'[i].event = "money-sent"
               /\ emitted'[i].to = connectedUsers[accounts[fromAccount[r]].userId]]_vars

\* u1 is connected, u2 is not and never was pushed to: the transfer of u1
\* to u2 was answered 201 with the sender's push as the only push
AbsentRecipientNoDeliveryWitness ==
  /\ \E r \in Handlers : resp[r] = TransferCompleted
  /\ Len(transactions) = 1
  /\ accounts[transactions[1].toAccountId].userId = "u2"
  /\ connectedUsers["u2"] = NoSocket
  /\ \A s \in Sockets : sockets[s] # "u2"
  /\ Len(emitted) = 1
  /\ emitted[1].event = "money-sent"

\* ----------------------------------------------------------------- C21
\* C21: when the recipient has no registry entry, the transfer is answered
\* 201 and notifyMoneyTransfer is not called for it.
AbsentRecipientNotifierNotInvoked ==
  [][\A r \in Handlers :
       (/\ pc[r] = "notify" /\ pc'[r] # pc[r]
        /\ ~isUserConnected(accounts[toAccount[r]].userId))
       => /\ resp'[r] = TransferCompleted
          /\ resp'[r].status = CREATED
          /\ notifyCalls' = notifyCalls]_vars

\* ----------------------------------------------------------------- C22
\* the emit calls of one step that carry this event
PushesOf(calls, event) == {i \in 1..Len(calls) : calls[i].event = event}

DisconnectNeverAltersTransfer ==
  [][(\E s \in Sockets : sockets[s] # NoUser /\ sockets'[s] = NoUser)
      => UNCHANGED <<accounts, transferOps>>]_vars

\* the sockets of the sender and of the recipient have been closed and a
\* transfer of u1 to u2 stands before its commit with its three writes
DisconnectNeverAltersTransferWitness ==
  /\ \E s \in Sockets :
       handshake[s].stage = "closed" /\ handshake[s].userId = "u1"
  /\ \E s \in Sockets :
       handshake[s].stage = "closed" /\ handshake[s].userId = "u2"
  /\ \E r \in Handlers :
       /\ pc[r] = "tx_commit"
       /\ req[r].user = "u1"
       /\ Len(pending[r]) = 3

\* ------------------------------------------- vocabulary: presence
\* this step accepts a connection of user u on socket s
Registers(s, u) == sockets[s] = NoUser /\ sockets'[s] = u

\* this step handles the disconnect of socket s, opened for user u
Unregisters(s, u) == sockets[s] = u /\ sockets'[s] = NoUser

\* ----------------------------------------------------------------- C23
\* C23: right after a connection of u is accepted isUserConnected(u) is
\* true, and right after a disconnect of u is handled it is false: the
\* entry is gone in the state the disconnect step leads to.
PresenceRoundTrip ==
  [][\A s \in Sockets, u \in Users :
       /\ Registers(s, u) => isUserConnected(u)'
       /\ Unregisters(s, u) => ~isUserConnected(u)']_vars

\* u1 connected on s1 and disconnected again while u2 stays registered
\* on s2
PresenceRoundTripWitness ==
  /\ handshake["s1"].stage = "closed" /\ handshake["s1"].userId = "u1"
  /\ ~isUserConnected("u1")
  /\ sockets["s2"] = "u2"
  /\ isUserConnected("u2") /\ connectedUsers["u2"] = "s2"

\* ----------------------------------------------------------------- C24
\* C24: accepting a connection of u on s makes s and the user row read
\* for it the entry of u, whatever entry u had before, and leaves the
\* entry of every other user as it was.
RegisterOverwrites ==
  [][\A s \in Sockets, u \in Users :
       Registers(s, u)
       => /\ connectedUsers'[u] = s
          /\ connectedNames'[u] = profile[u]
          /\ \A v \in Users \ {u} :
               /\ connectedUsers'[v] = connectedUsers[v]
               /\ connectedNames'[v] = connectedNames[v]]_vars

\* u1 has two open sockets; its entry is the second one, with the first
\* name the row had when the second one connected, and u2's entry stands
RegisterOverwritesWitness ==
  /\ sockets["s1"] = "u1" /\ sockets["s2"] = "u1"
  /\ connectedUsers["u1"] = "s2"
  /\ connectedNames["u1"] = "Bea"
  /\ connectedUsers["u2"] = "s3"

\* ----------------------------------------------------------------- C25
\* C25: when a user has two open sockets and the registry entry is the
\* other, still open one, handling the disconnect of this socket leaves
\* that entry in place.
LiveEntrySurvivesDisconnect ==
  [][\A s, t \in Sockets, u \in Users :
       (/\ s # t
        /\ Unregisters(s, u)
        /\ connectedUsers[u] = t
        /\ sockets[t] = u /\ sockets'[t] = u)
       => connectedUsers'[u] = t]_vars

\* ----------------------------------------------------------------- C26
\* the tokens that pass jwt.verify and name a user that exists
GoodTokens == {Token("valid", u) : u \in Users}

\* C26: a socket whose token is missing, invalid, expired, without a user
\* id or of an unknown user is never accepted and its refusal changes no
\* entry; an entry of u changes to a socket only in the step in which the
\* lookup for that socket's verified token of u resolves, and the socket
\* is then open for u.
OnlyVerifiedConnectionsRegister ==
  [][/\ \A s \in Sockets :
          /\ handshake'[s].token \notin GoodTokens
               => /\ handshake'[s].stage \in {"none", "lookup", "rejected"}
                  /\ sockets'[s] = NoUser
          /\ (handshake'[s].stage = "rejected" /\ handshake'[s] # handshake[s])
               => UNCHANGED <<sockets, connectedUsers, connectedNames>>
     /\ \A u \in Users :
          (connectedUsers'[u] # connectedUsers[u]
             /\ connectedUsers'[u] # NoSocket)
          => LET s == connectedUsers'[u]
             IN /\ handshake[s] = Handshake("lookup", Token("valid", u), u, "")
                /\ handshake'[s] =
                     Handshake("accepted", Token("valid", u), u, "")
                /\ sockets'[s] = u]_vars

\* one attempt was refused for an expired token, one for the token of an
\* unknown user, and the only entry is that of the verified third
OnlyVerifiedConnectionsRegisterWitness ==
  /\ \E s \in Sockets :
       handshake[s] = Rejected(Token("expired", "u1"), "Authentication failed")
  /\ \E s \in Sockets :
       handshake[s] = Rejected(Token("valid", UnknownUser), "User not found")
  /\ \E s \in Sockets :
       /\ handshake[s].stage = "accepted"
       /\ connectedUsers["u2"] = s
  /\ ~isUserConnected("u1")

\* ----------------------------------------------------------------- C28
\* C28: every commit of a transfer appends one record with an id no
\* record had and moves the amount once more, also when the ledger
\* already holds a record with the same source, destination and amount.
TransfersNotDeduplicated ==
  [][\A r \in Handlers :
       (pc[r] = "tx_commit" /\ pc'[r] = "notify")
       => /\ Len(transactions') = Len(transactions) + 1
          /\ LET t == transactions'[Len(transactions')]
             IN /\ \A i \in 1..Len(transactions) : transactions[i].id # t.id
                /\ t.fromAccountId = fromAccount[r]
                /\ t.toAccountId = toAccount[r]
                /\ t.amount = amountDecimal[r]
                /\ accounts'[t.fromAccountId].balance
                     = accounts[t.fromAccountId].balance - t.amount
                /\ accounts'[t.toAccountId].balance
                     = accounts[t.toAccountId].balance + t.amount]_vars

\* the same transfer of 500 was committed twice: two records that differ
\* in their id only, and a1 has paid 500 twice to a2
TransfersNotDeduplicatedWitness ==
  /\ Len(transactions) = 2
  /\ transactions[1].id # transactions[2].id
  /\ transactions[1].fromAccountId = transactions[2].fromAccountId
  /\ transactions[1].toAccountId = transactions[2].toAccountId
  /\ transactions[1].amount = 500 /\ transactions[2].amount = 500
  /\ accounts["a1"].balance = DEFAULT_FIRST_ACCOUNT_BALANCE - 500 - 500
  /\ accounts["a2"].balance = DEFAULT_FIRST_ACCOUNT_BALANCE + 500 + 500

\* ----------------------------------------------------------------- C29
\* C29: no two records of the ledger have the same reference.
UniqueReferences ==
  \A i, j \in 1..Len(transactions) :
     i # j => transactions[i].reference # transactions[j].reference

\* ----------------------------------------------------------------- C30
\* C30: every step keeps the records of the ledger as they are, in their
\* order, and the ledger grows only in the commit step of a transfer, by
\* the one record of that transfer.
LedgerAppendOnly ==
  [][/\ Len(transactions') >= Len(transactions)
     /\ SubSeq(transactions', 1, Len(transactions)) = transactions
     /\ transactions' # transactions
          => /\ Len(transactions') = Len(transactions) + 1
             /\ \E r \in Handlers :
                  pc[r] = "tx_commit" /\ pc'[r] = "notify"]_vars

\* two transfers are recorded, u1 has been answered a listing of both,
\* newest first, has created an account and made it the default one, and
\* u2's socket has come and gone
LedgerAppendOnlyWitness ==
  /\ Len(transactions) = 2
  /\ \E r \in Handlers :
       /\ lresp[r] = TransactionsRetrieved
       /\ listed[r] = <<transactions[2], transactions[1]>>
  /\ "a3" \in DOMAIN accounts /\ accounts["a3"].defaultAccount
  /\ \E s \in Sockets : handshake[s].stage = "closed"

\* ----------------------------------------------------------------- C31
\* the records of the ledger that touch the account
TouchingIds(accountId) ==
  {transactions[i].id : i \in {j \in 1..Len(transactions) :
                                  Touches(accountId, transactions[j])}}

\* C31: a listing answered with 200 is asked by the owner of the account
\* and holds records of the ledger that have the account as source or
\* destination, each once, newest first, the newest that exist, and no
\* more than TRANSACTIONS_LIMIT; a listing of an account the caller does
\* not own is answered 404 without rows.
ListingContract ==
  [][\A r \in Handlers :
       /\ (lpc[r] = "l_list" /\ lresp'[r] = TransactionsRetrieved)
            => LET a == lreq[r].accountId
                   rows == listed'[r]
                   ids == {rows[i].id : i \in 1..Len(rows)}
               IN /\ a \in DOMAIN accounts
                  /\ accounts[a].userId = lreq[r].user
                  /\ Len(rows) <= TRANSACTIONS_LIMIT
                  /\ \A i \in 1..Len(rows) :
                       /\ Touches(a, rows[i])
                       /\ \E j \in 1..Len(transactions) :
                            transactions[j] = rows[i]
                  /\ \A i \in 1..(Len(rows) - 1) : rows[i].id > rows[i + 1].id
                  /\ \A old \in TouchingIds(a) \ ids :
                       /\ Len(rows) = TRANSACTIONS_LIMIT
                       /\ \A new \in ids : old < new
       /\ (/\ lpc[r] = "l_find" /\ lpc'[r] # "l_find"
           /\ findAccountByIdAndUser(lreq[r].accountId, lreq[r].user)
                = NullAccount)
            => /\ lresp'[r] \in {AccountNotOwned, ListError}
               /\ lresp'[r].status \in {NOT_FOUND, INTERNAL_SERVER_ERROR}
               /\ listed'[r] = <<>>]_vars

\* of the twelve records that touch a1, the last two committed in the
\* inverse order, u1 was sent the ten newest, newest first, while u2, who
\* asked for a1 as well, was answered 404
ListingContractWitness ==
  /\ Len(transactions) = 12
  /\ transactions[12].id = 11
  /\ lresp["h1"] = TransactionsRetrieved
  /\ Len(listed["h1"]) = TRANSACTIONS_LIMIT
  /\ listed["h1"][1].id = 12 /\ listed["h1"][2].id = 11
  /\ listed["h1"][TRANSACTIONS_LIMIT].id = 3
  /\ lresp["h2"] = AccountNotOwned /\ listed["h2"] = <<>>

\* ----------------------------------------------------------------- C32
\* C32: a step that changes the balance of an existing account is the
\* commit step of a transfer, and the account is the source or the
\* destination of that transfer; no step removes an account.
BalanceFrame ==
  [][\A id \in DOMAIN accounts :
       /\ id \in DOMAIN accounts'
       /\ accounts'[id].balance # accounts[id].balance
            => \E r \in Handlers :
                 /\ pc[r] = "tx_commit" /\ pc'[r] = "notify"
                 /\ id \in {fromAccount[r], toAccount[r]}]_vars

\* u1 has opened a3 and made it its default account, has listed a1, u2's
\* socket has come and gone, and one transfer of 500 was committed and
\* notified: a3 has the balance it was opened with, a1 and a2 have moved
BalanceFrameWitness ==
  /\ "a3" \in DOMAIN accounts /\ accounts["a3"].defaultAccount
  /\ accounts["a3"].balance = DEFAULT_ADDITIONAL_ACCOUNT_BALANCE
  /\ accounts["a1"].balance = DEFAULT_FIRST_ACCOUNT_BALANCE - 500
  /\ accounts["a2"].balance = DEFAULT_FIRST_ACCOUNT_BALANCE + 500
  /\ \E r \in Handlers : lresp[r] = TransactionsRetrieved
  /\ \E r \in Handlers : resp[r] = TransferCompleted
  /\ notifyCalls = 1
  /\ \E s \in Sockets : handshake[s].stage = "closed"

\* ----------------------------------------------------------------- C33
\* C33: every user whose signup has been answered, with success or with a
\* failure, owns exactly one account; it is the default account and has
\* the balance of a first account.
SignupLeavesDefaultAccount ==
  \A row \in userRows :
     (\A r \in Handlers : snew[r] # row.id)
     => /\ Cardinality(AccountsOf(row.id)) = 1
        /\ \A id \in AccountsOf(row.id) :
             /\ accounts[id].defaultAccount
             /\ accounts[id].balance = DEFAULT_FIRST_ACCOUNT_BALANCE

\* ----------------------------------------------------------------- C34
\* C34: emit calls are made only in the step in which a handler that has
\* committed its transfer runs the notifier and answers 201; the record of
\* that transfer is in the ledger by then and the calls carry its amount.
\* A step that answers anything else makes no emit call.
EmitsOnlyAfterCommit ==
  [][/\ emitted' # emitted
        => \E r \in Handlers :
             /\ pc[r] = "notify" /\ pc'[r] = "done"
             /\ resp'[r] = TransferCompleted
             /\ \E i \in 1..Len(transactions) :
                  /\ transactions[i].fromAccountId = fromAccount[r]
                  /\ transactions[i].toAccountId = toAccount[r]
                  /\ transactions[i].amount = amountDecimal[r]
             /\ \A i \in (Len(emitted) + 1)..Len(emitted') :
                  emitted'[i].amount = amountDecimal[r]
             /\ SubSeq(emitted', 1, Len(emitted)) = emitted
     /\ \A r \in Handlers :
          (resp'[r] # resp[r] /\ resp'[r] # TransferCompleted)
          => emitted' = emitted]_vars

\* both users are connected; one transfer was committed and both were
\* pushed to, the other request failed in the store and nobody was
\* pushed to for it
EmitsOnlyAfterCommitWitness ==
  /\ Len(transactions) = 1
  /\ Len(emitted) = 2
  /\ \E r \in Handlers : resp[r] = TransferCompleted
  /\ \E r \in Handlers : resp[r] = InternalError
  /\ isUserConnected("u1") /\ isUserConnected("u2")

\* ----------------------------------------------------------------- C35
\* what the records of a ledger have added to an account, less what they
\* have taken from it
RECURSIVE NetFlow(_, _)
NetFlow(id, ledger) ==
  IF ledger = <<>> THEN 0
  ELSE (IF Head(ledger).toAccountId = id THEN Head(ledger).amount ELSE 0)
       - (IF Head(ledger).fromAccountId = id THEN Head(ledger).amount ELSE 0)
       + NetFlow(id, Tail(ledger))

\* the balance an account was created with: a1 and a2 are first accounts,
\* every other account was opened as an additional one
StartingBalance(id) ==
  IF id \in {"a1", "a2"} THEN DEFAULT_FIRST_ACCOUNT_BALANCE
  ELSE DEFAULT_ADDITIONAL_ACCOUNT_BALANCE

RECURSIVE TotalBalance(_)
TotalBalance(ids) ==
  IF ids = {} THEN 0
  ELSE LET id == CHOOSE x \in ids : TRUE
       IN accounts[id].balance + TotalBalance(ids \ {id})

RECURSIVE TotalStartingBalance(_)
TotalStartingBalance(ids) ==
  IF ids = {} THEN 0
  ELSE LET id == CHOOSE x \in ids : TRUE
       IN StartingBalance(id) + TotalStartingBalance(ids \ {id})

\* C35: the balance of every account is the balance it was created with
\* plus the amounts of the records that name it as destination minus the
\* amounts of the records that name it as source, and the balances add up
\* to the starting balances of the accounts that exist.
LedgerConsistency ==
  /\ \A id \in DOMAIN accounts :
       accounts[id].balance = StartingBalance(id) + NetFlow(id, transactions)
  /\ TotalBalance(DOMAIN accounts) = TotalStartingBalance(DOMAIN accounts)

\* 500 went from a1 to a2 and 1000 from a2 to a1, and u1 has opened a3
LedgerConsistencyWitness ==
  /\ Len(transactions) = 2
  /\ \E i \in 1..2 : transactions[i].fromAccountId = "a1"
  /\ \E i \in 1..2 : transactions[i].fromAccountId = "a2"
  /\ accounts["a1"].balance = DEFAULT_FIRST_ACCOUNT_BALANCE - 500 + 1000
  /\ accounts["a2"].balance = DEFAULT_FIRST_ACCOUNT_BALANCE + 500 - 1000
  /\ "a3" \in DOMAIN accounts
  /\ accounts["a3"].balance = DEFAULT_ADDITIONAL_ACCOUNT_BALANCE

\* ----------------------------------------------------------------- C36
\* C36: when the emit to a registered recipient throws and the sender is
\* registered, the notify step still makes the "money-sent" emit to the
\* sender, and the caller is answered 201.
FailingPushKeepsOtherPush ==
  [][\A r \in Handlers :
       (pc[r] = "notify" /\ pc'[r] # pc[r])
       => LET calls == SubSeq(emitted', Len(emitted) + 1, Len(emitted'))
          IN (/\ \E i \in PushesOf(calls, "money-transfer") : calls[i].threw
              /\ isUserConnected(accounts[fromAccount[r]].userId))
             => /\ PushesOf(calls, "money-sent") # {}
                /\ resp'[r] = TransferCompleted]_vars

\* ----------------------------------------------------------------- C37
\* C37: after every step, a registry entry of u names a socket that is
\* open for u; an entry comes to name a socket only in the step that
\* accepts that socket, and that step always makes it the entry, so the
\* entry is the most recently accepted connection; and every emit call of
\* the notifier goes to a socket that is open.
NoStaleHandle ==
  [][/\ \A u \in Users :
          /\ connectedUsers'[u] # NoSocket
               => sockets'[connectedUsers'[u]] = u
          /\ (connectedUsers'[u] # connectedUsers[u]
                /\ connectedUsers'[u] # NoSocket)
               => Registers(connectedUsers'[u], u)
     /\ \A s \in Sockets, u \in Users :
          Registers(s, u) => connectedUsers'[u] = s
     /\ \A i \in (Len(emitted) + 1)..Len(emitted') :
          sockets[emitted'[i].to] # NoUser]_vars

\* u1's first socket was closed; its entry is its second socket, and the
\* push of its transfer went there
NoStaleHandleWitness ==
  /\ handshake["s1"].stage = "closed" /\ handshake["s1"].userId = "u1"
  /\ connectedUsers["u1"] = "s2" /\ sockets["s2"] = "u1"
  /\ Len(emitted) = 1
  /\ emitted[1].to = "s2" /\ emitted[1].event = "money-sent"

\* ----------------------------------------------------------------- C38
\* the responses transferFunds sends
Outcomes ==
  CallerFailures \cup {AuthRequired, InternalError, TransferCompleted}

InFlight(r) == pc[r] \notin {"idle", "done"}

\* C38: a request in flight has no response yet; the step that ends it
\* sends one of the responses of transferFunds; the response of a handler
\* changes only when a request arrives or when the request in flight
\* ends; and every request in flight ends.
ExactlyOneResponse ==
  /\ [][\A r \in Handlers :
          /\ InFlight(r)' => resp'[r] = NoResponse
          /\ (InFlight(r) /\ pc'[r] = "done") => resp'[r] \in Outcomes
          /\ resp'[r] # resp[r]
               => \/ /\ started' = started + 1
                     /\ ~InFlight(r)
                     /\ InFlight(r)' \/ resp'[r] \in Outcomes
                  \/ /\ started' = started
                     /\ InFlight(r) /\ pc'[r] = "done"]_vars
  /\ \A r \in Handlers : InFlight(r) ~> (pc[r] = "done")

\* the handler has answered its second request, with 201, after it had
\* turned the first one down or failed on it: one record, two requests
ExactlyOneResponseWitness ==
  /\ started = 2
  /\ pc["h1"] = "done" /\ resp["h1"] = TransferCompleted
  /\ Len(transactions) = 1
  /\ notifyCalls = 1

====
